---------------------------- MODULE Spec2Model ----------------------------
(***************************************************************************)
(* A model of the S3 gateway of recallnet/recall-s3: the bucket-name       *)
(* resolver, the alias index, the multipart staging store and the S3       *)
(* verbs of lib/basin_s3/src/s3.rs, with the backend (bucket actors and    *)
(* their key -> object stores) as the state the verbs query and mutate.    *)
(*                                                                         *)
(* Text is a sequence of symbols.  A symbol is one byte ("a", ".", ...)    *)
(* or a word that stands for a fixed run of bytes (a 42-byte hex address,  *)
(* an 18-letter word, a literal of a format string).  Object bytes, MD5    *)
(* digests, hex text and ETags are symbol sequences too, so every          *)
(* formatting step is a real operation on text.                            *)
(***************************************************************************)
EXTENDS Integers, Sequences, FiniteSets, TLC

VARIABLES
    wallet,     \* Basin.wallet: NoWallet or the wallet's Ethereum address
    buckets,    \* the backend: the bucket actors in creation order
    staging,    \* Basin.root: file name -> content of the staging directory
    uploaded,   \* history: file name -> body of the successful UploadPart
                \* that wrote the file now in staging
    written,    \* history: <<bucket address, key>> -> the request bodies that
                \* the successful PutObject or CompleteMultipartUpload which
                \* wrote the object now stored was given
    req,        \* the request handled last
    resp,       \* its response
    lookups,    \* the alias resolutions the last request made, in order
    fnIn,       \* the pure function applied last and its argument
    fnOut,      \* its result
    tasks,      \* connection -> the request it is handling and the point
                \* its handler has reached, where handlers run concurrently
    counted,    \* the increments of COUNTER_S3_ACTIONS made while the last
                \* request was handled, in order
    pipe        \* the duplex pipe of a GetObject, its download task and
                \* the reader of the response body

vars ==
    <<wallet, buckets, staging, uploaded, written, req, resp, lookups, fnIn,
      fnOut, tasks, counted, pipe>>

---------------------------------------------------------------------------
(* Bounds of the model. *)

\* Longest bucket string (in symbols) given to the name functions.
MaxNameSyms == 4

\* Highest part number of an UploadPart request and longest part list of a
\* CompleteMultipartUpload request.
MaxPart == 2

\* Most bucket actors the backend holds.
MaxBuckets == 4

\* Bytes the buffer of tokio::io::copy holds before it writes them out.
CopyBufSyms == 2

---------------------------------------------------------------------------
(* Text *)

\* Two valid 20-byte hex addresses with 0x prefix (42 bytes each).
ADDR1 == "0xc05fe6b63ffa4b3c518e6ff1e597358ee839db01"
ADDR2 == "0xe1209fb9aa2d08c8541297ec06ee6bbb63b10edc"
EthAddrs == {ADDR1, ADDR2}

\* A word of 18 lowercase letters.
W18 == "abcdefghijklmnopqr"

LowerSyms == {"a", "b", "c", "d"}
DigitSyms == {"7"}
UpperSyms == {"A"}

\* Number of bytes of a symbol.
SymLen(c) == IF c \in EthAddrs THEN 42 ELSE IF c = W18 THEN 18 ELSE 1

RECURSIVE StrLen(_)
StrLen(s) == IF s = <<>> THEN 0 ELSE SymLen(Head(s)) + StrLen(Tail(s))

\* b.is_ascii_lowercase() || b.is_ascii_digit(), for the first, the last and
\* every byte of a symbol.  An address is "0x" and lowercase hex digits.
FirstByteAlnum(c) == c \in LowerSyms \cup DigitSyms \cup EthAddrs \cup {W18}
LastByteAlnum(c) == c \in LowerSyms \cup DigitSyms \cup EthAddrs \cup {W18}
AllBytesNameChars(c) ==
    c \in LowerSyms \cup DigitSyms \cup EthAddrs \cup {W18, ".", "-"}

\* str::contains("..")
ContainsDotDot(s) ==
    \E i \in 1..(Len(s) - 1) : s[i] = "." /\ s[i + 1] = "."

\* str::split("."): the pieces between the dots, empty pieces kept.
RECURSIVE split(_)
split(s) ==
    IF s = <<>> THEN << <<>> >>
    ELSE LET rest == split(Tail(s)) IN
         IF Head(s) = "." THEN << <<>> >> \o rest
         ELSE << <<Head(s)>> \o Head(rest) >> \o Tail(rest)

\* [&str]::join(sep)
RECURSIVE join(_, _)
join(parts, sep) ==
    IF parts = <<>> THEN <<>>
    ELSE IF Len(parts) = 1 THEN Head(parts)
    ELSE Head(parts) \o sep \o join(Tail(parts), sep)

\* ethers::types::Address::from_str: the 20-byte address, or no address.
NoAddr == "no-address"
Address_from_str(s) ==
    IF Len(s) = 1 /\ s[1] \in EthAddrs THEN s[1] ELSE NoAddr

\* ethers_address_to_fil_address: the backend (delegated f410) form.
ethers_address_to_fil_address(a) == <<"f410", a>>

EmptyMap == [x \in {} |-> <<>>]

---------------------------------------------------------------------------
(* Results *)

Err(code) == [status |-> "err", code |-> code, msg |-> ""]
Custom(msg) == [status |-> "err", code |-> "Custom", msg |-> msg]
Panic == [status |-> "panic", code |-> "panic", msg |-> ""]

---------------------------------------------------------------------------
(* Bucket names *)

check_bucket_name_long(name) ==
    /\ 3 <= StrLen(name) /\ StrLen(name) <= 63
    /\ \A i \in 1..Len(name) : AllBytesNameChars(name[i])
    /\ FirstByteAlnum(name[1])
    /\ LastByteAlnum(name[Len(name)])
    /\ ~ContainsDotDot(name)

check_bucket_name(name) ==
    IF ~(3 <= StrLen(name) /\ StrLen(name) <= 20) THEN FALSE
    ELSE IF ~(\A i \in 1..Len(name) : AllBytesNameChars(name[i])) THEN FALSE
    ELSE IF ~(name # <<>> /\ FirstByteAlnum(name[1])) THEN FALSE
    ELSE IF ~(name # <<>> /\ LastByteAlnum(name[Len(name)])) THEN FALSE
    ELSE IF ContainsDotDot(name) THEN FALSE
    ELSE TRUE

\* BucketNameWithOwner::from(bucket_name)
BucketNameWithOwner_from(bucket_name) ==
    LET parts == split(bucket_name) IN
    IF Len(parts) <= 1 THEN Err("InvalidBucketName")
    ELSE LET addr == Address_from_str(parts[1]) IN
         IF addr = NoAddr THEN Custom("invalid address")
         ELSE LET name == join(Tail(parts), <<".">>) IN
              IF ~check_bucket_name(name) THEN Err("InvalidBucketName")
              ELSE [status |-> "ok", name |-> name,
                    owner |-> ethers_address_to_fil_address(addr)]

\* split_eth_address(name): <<address text, rest>> or none
NoSplit == <<>>
split_eth_address(name) ==
    LET parts == split(name) IN
    IF Len(parts) = 1 THEN NoSplit
    ELSE IF Address_from_str(parts[1]) = NoAddr THEN NoSplit
    ELSE <<parts[1], join(Tail(parts), <<>>)>>

NoWallet == "no-wallet"

\* Recall::get_bucket_path(bucket) on a gateway whose wallet is w
get_bucket_path(w, bucket) ==
    LET sp == split_eth_address(bucket) IN
    IF sp # NoSplit
    THEN BucketNameWithOwner_from(sp[1] \o <<".">> \o sp[2])
    ELSE IF w # NoWallet
         THEN BucketNameWithOwner_from(<<w>> \o <<".">> \o bucket)
         ELSE Custom("owner address prefix is missing")

---------------------------------------------------------------------------
(* Maps and the byte order of text *)

MapPut(m, k, v) == [x \in DOMAIN m \cup {k} |-> IF x = k THEN v ELSE m[x]]
MapDel(m, k) == [x \in DOMAIN m \ {k} |-> m[x]]

\* str::starts_with
starts_with(s, p) == Len(p) <= Len(s) /\ SubSeq(s, 1, Len(p)) = p

\* The bytes that occur in object keys, in ascending byte order.
ByteOrder == <<"2", "k">>
SymRank(c) == CHOOSE i \in 1..Len(ByteOrder) : ByteOrder[i] = c

RECURSIVE LexLess(_, _)
LexLess(a, b) ==
    IF b = <<>> THEN FALSE
    ELSE IF a = <<>> THEN TRUE
    ELSE IF Head(a) = Head(b) THEN LexLess(Tail(a), Tail(b))
    ELSE SymRank(Head(a)) < SymRank(Head(b))

RECURSIVE SortKeys(_)
SortKeys(S) ==
    IF S = {} THEN <<>>
    ELSE LET m == CHOOSE k \in S : \A o \in S \ {k} : LexLess(k, o) IN
         <<m>> \o SortKeys(S \ {m})

RECURSIVE Concat(_)
Concat(chunks) ==
    IF chunks = <<>> THEN <<>> ELSE Head(chunks) \o Concat(Tail(chunks))

\* u64::to_string / i32 Display of a small number
Digits == <<"0", "1", "2", "3", "4", "5", "6", "7", "8", "9">>
RECURSIVE to_string(_)
to_string(n) ==
    IF n < 10 THEN <<Digits[n + 1]>>
    ELSE to_string(n \div 10) \o <<Digits[(n % 10) + 1]>>

---------------------------------------------------------------------------
(* MD5, hex and ETags *)

\* The 16 digest bytes of an input, as text that names the input: the digest
\* of different inputs differs, and a run of digests reads back uniquely.
Md5(bytes) == <<"md5(">> \o bytes \o <<")">>

\* Md5::new, update, finalize: the hasher holds what it was fed.
Md5_new == <<>>
Md5_update(hasher, bytes) == hasher \o bytes
Md5_finalize(hasher) == Md5(hasher)

\* utils::hex: lowercase hex text of bytes
hex(bytes) == <<"hex(">> \o bytes \o <<")">>

\* format!("\"{md5_sum}\"")
single_e_tag(md5_sum) == <<"\"">> \o md5_sum \o <<"\"">>

multipart_e_tag_no_count(md5_sum, cnt) == <<"\"">> \o md5_sum \o <<"\"">>

\* format!("\"{md5_sum}-{cnt}\"")
multipart_e_tag(md5_sum, cnt) ==
    <<"\"">> \o md5_sum \o <<"-">> \o to_string(cnt) \o <<"\"">>

\* SystemTime::now() in seconds since the epoch, as decimal text
Now == <<"1700000000">>
Earlier == <<"1600000000">>

\* Timestamp::parse(TimestampFormat::EpochSeconds, v) succeeds
IsEpochSeconds(v) == v \in {Now, Earlier}

---------------------------------------------------------------------------
(* Request bodies: the chunks the stream yields, then an error or the end *)

NoBody == [present |-> FALSE, chunks |-> <<>>, err |-> FALSE]
Body(chunks, err) == [present |-> TRUE, chunks |-> chunks, err |-> err]

---------------------------------------------------------------------------
(* The staging directory *)

\* Uuid::parse_str: the canonical form and the upper-case form name the
\* same UUID; anything else is no UUID.
NoUuid == "no-uuid"
Uuid_parse_str(s) ==
    IF s \in {"u1", "U1"} THEN "u1"
    ELSE IF s \in {"u2", "U2"} THEN "u2"
    ELSE NoUuid

\* A part path that leaves the upload id out.
get_upload_part_path_shared(upload_id, part_number) ==
    <<".upload", ".part-">> \o to_string(part_number) \o <<".json">>

\* format!(".upload-{upload_id}.part-{part_number}.json") under root
get_upload_part_path(upload_id, part_number) ==
    <<".upload", "-", upload_id, ".part-">> \o to_string(part_number)
        \o <<".json">>

\* format!(".upload_id-{upload_id}")
abort_prefix(upload_id) == <<".upload", "_id-", upload_id>>

\* The part files of an upload that are in the staging directory.
PartFilesOf(stg, upload_id) ==
    {f \in DOMAIN stg : starts_with(f, <<".upload", "-", upload_id, ".part-">>)}

---------------------------------------------------------------------------
(* The backend *)

\* No bucket address (Option::None).
NoBucket == "no-bucket"

is_read_only == wallet = NoWallet

\* Bucket::list(provider, Void(owner), Committed)
bucket_list(owner) == SelectSeq(buckets, LAMBDA b : b.owner = owner)

first_alias_match_last(list, alias) ==
    LET hits == {i \in 1..Len(list) :
                    "alias" \in DOMAIN list[i].metadata
                    /\ list[i].metadata["alias"] = alias} IN
    IF hits = {} THEN NoBucket
    ELSE list[CHOOSE i \in hits : \A j \in hits : j <= i].address

\* The loop of get_bucket_address_by_alias: the first item whose alias
\* metadata equals the name.
RECURSIVE first_alias_match(_, _)
first_alias_match(list, alias) ==
    IF list = <<>> THEN NoBucket
    ELSE IF "alias" \in DOMAIN Head(list).metadata
            /\ Head(list).metadata["alias"] = alias
         THEN Head(list).address
         ELSE first_alias_match(Tail(list), alias)

\* Basin::get_bucket_address_by_alias; rpc_fails: the list call fails
get_bucket_address_by_alias(bucket, rpc_fails) ==
    IF rpc_fails THEN Custom("rpc error")
    ELSE [status |-> "ok",
          address |-> first_alias_match(bucket_list(bucket.owner), bucket.name)]

\* One entry of lookups.
Lookup(bucket, r) ==
    [owner |-> bucket.owner, name |-> bucket.name, address |-> r.address]

\* Bucket::attach(address): the actor with that address
BucketIndex(address) == CHOOSE i \in 1..Len(buckets) : buckets[i].address = address
ObjectsOf(address) == buckets[BucketIndex(address)].objects

\* machine.query: the keys with the prefix, from start_key on, in byte
\* order, at most limit of them (0: no limit), and the key to resume at.
\* No stored key holds a delimiter, so no keys are rolled up into common
\* prefixes.
NoKey == <<"no-key">>
query(objs, prefix, start_key, limit) ==
    LET keys == SortKeys({k \in DOMAIN objs :
                    /\ starts_with(k, prefix)
                    /\ (start_key = NoKey \/ ~LexLess(k, start_key))})
        n == IF limit = 0 \/ Len(keys) <= limit THEN Len(keys) ELSE limit
    IN  [objects |-> [i \in 1..n |-> <<keys[i], objs[keys[i]]>>],
         common_prefixes |-> <<>>,
         next_key |-> IF n < Len(keys) THEN keys[n + 1] ELSE NoKey]

\* machine.add_from_path / add_reader committed: the key holds the object
add_object(bs, address, key, data, metadata) ==
    [bs EXCEPT ![BucketIndex(address)].objects =
        MapPut(@, key, [size |-> Len(data), data |-> data,
                        metadata |-> metadata])]

\* machine.delete committed: the key holds nothing
delete_key(bs, address, key) ==
    [bs EXCEPT ![BucketIndex(address)].objects = MapDel(@, key)]

---------------------------------------------------------------------------
(* Outcomes of a handler: the response and the state it leaves *)

Ok(out) == [status |-> "ok", code |-> "", msg |-> "", out |-> out]

Outcome(r, bs, stg, upl, lk) ==
    [resp |-> r, buckets |-> bs, staging |-> stg, uploaded |-> upl,
     lookups |-> lk]

\* A response that leaves the state as it is.
Same(r, lk) == Outcome(r, buckets, staging, uploaded, lk)

---------------------------------------------------------------------------
(* The multipart verbs *)

\* create_multipart_upload; uuid: the UUID Uuid::new_v4 draws
create_multipart_upload(in, uuid) ==
    IF is_read_only THEN Same(Err("NotImplemented"), <<>>)
    ELSE Same(Ok([bucket |-> in.bucket, key |-> in.key, upload_id |-> uuid]),
              <<>>)

\* utils::copy_bytes with the inspect_ok hasher of upload_part: the bytes
\* written to the file and the hasher, up to the end or the stream's error
copy_bytes(body) ==
    [written |-> Concat(body.chunks),
     md5_hash |-> Md5_update(Md5_new, Concat(body.chunks)),
     failed |-> body.err]

\* upload_part
upload_part(in) ==
    IF is_read_only THEN Same(Err("NotImplemented"), <<>>)
    ELSE IF ~in.body.present THEN Same(Err("IncompleteBody"), <<>>)
    ELSE LET upload_id == Uuid_parse_str(in.upload_id) IN
    IF upload_id = NoUuid THEN Same(Err("InvalidRequest"), <<>>)
    ELSE LET file_path == get_upload_part_path(upload_id, in.part_number)
             \* fs::File::create truncates, copy_bytes appends
             c == copy_bytes(in.body)
             stg == MapPut(staging, file_path, c.written)
         IN
         IF c.failed
         THEN Outcome(Err("InternalError"), buckets, stg,
                      MapDel(uploaded, file_path), <<>>)
         ELSE Outcome(Ok([e_tag |-> single_e_tag(hex(Md5_finalize(c.md5_hash)))]),
                      buckets, stg, MapPut(uploaded, file_path, c.written),
                      <<>>)

\* HashReader over a part file, driven by tokio::io::copy: each poll_read
\* appends to the buffer and the hasher is fed what lies past pos, the
\* length the buffer had before the read.
RECURSIVE hash_reader_copy(_, _, _, _)
hash_reader_copy(rest, buf, out, hasher) ==
    IF rest = <<>>
    THEN [copied |-> out \o buf, digest |-> Md5_finalize(hasher)]
    ELSE LET pos == Len(buf)
             filled == buf \o <<Head(rest)>>
             fed == Md5_update(hasher, SubSeq(filled, pos + 1, Len(filled)))
         IN IF Len(filled) >= CopyBufSyms
            THEN hash_reader_copy(Tail(rest), <<>>, out \o filled, fed)
            ELSE hash_reader_copy(Tail(rest), filled, out, fed)

\* A part number a CompletedPart may lack.
NoPartNumber == 0

\* The loop of complete_multipart_upload over the listed parts, from the
\* state acc = [err, cnt, file, e_tag_hash, staging, uploaded].
RECURSIVE consume_parts(_, _, _)
consume_parts(parts, upload_id, acc) ==
    IF parts = <<>> THEN acc
    ELSE LET part_number == Head(parts) IN
    IF part_number = NoPartNumber
    THEN [acc EXCEPT !.err = Err("InvalidRequest")]
    ELSE LET cnt == acc.cnt + 1 IN
    IF part_number # cnt
    THEN [acc EXCEPT !.err = Err("InvalidRequest"), !.cnt = cnt]
    ELSE LET part_path == get_upload_part_path(upload_id, part_number) IN
    IF part_path \notin DOMAIN acc.staging
    THEN [acc EXCEPT !.err = Err("InternalError"), !.cnt = cnt]
    ELSE LET r == hash_reader_copy(acc.staging[part_path], <<>>, <<>>, Md5_new) IN
         consume_parts(Tail(parts), upload_id,
            [err |-> acc.err,
             cnt |-> cnt,
             file |-> acc.file \o r.copied,
             e_tag_hash |-> Md5_update(acc.e_tag_hash, r.digest),
             staging |-> MapDel(acc.staging, part_path),
             uploaded |-> MapDel(acc.uploaded, part_path)])

NoErr == [status |-> "ok"]
NoMultipartUpload == [present |-> FALSE, parts |-> <<>>]
CompletedUpload(parts) == [present |-> TRUE, parts |-> parts]

\* complete_multipart_upload
complete_multipart_upload(in) ==
    IF is_read_only THEN Same(Err("NotImplemented"), <<>>)
    ELSE LET bucket == BucketNameWithOwner_from(in.bucket) IN
    IF bucket.status # "ok" THEN Same(bucket, <<>>)
    ELSE IF ~in.multipart_upload.present THEN Same(Err("InvalidPart"), <<>>)
    ELSE LET upload_id == Uuid_parse_str(in.upload_id) IN
    IF upload_id = NoUuid THEN Same(Err("InvalidRequest"), <<>>)
    ELSE LET acc == consume_parts(in.multipart_upload.parts, upload_id,
                        [err |-> NoErr, cnt |-> 0, file |-> <<>>,
                         e_tag_hash |-> Md5_new, staging |-> staging,
                         uploaded |-> uploaded]) IN
    IF acc.err # NoErr
    THEN Outcome(acc.err, buckets, acc.staging, acc.uploaded, <<>>)
    ELSE LET md5_sum == hex(Md5_finalize(acc.e_tag_hash))
             e_tag == multipart_e_tag(md5_sum, acc.cnt)
             r == get_bucket_address_by_alias(bucket, in.rpc = 1)
         IN
    IF r.status # "ok"
    THEN Outcome(r, buckets, acc.staging, acc.uploaded, <<>>)
    ELSE LET lk == <<Lookup(bucket, r)>> IN
    IF r.address = NoBucket
    THEN Outcome(Err("NoSuchBucket"), buckets, acc.staging, acc.uploaded, lk)
    ELSE IF in.rpc = 2
    THEN Outcome(Custom("rpc error"), buckets, acc.staging, acc.uploaded, lk)
    ELSE Outcome(Ok([e_tag |-> e_tag, bucket |-> bucket.name, key |-> in.key]),
                 add_object(buckets, r.address, in.key, acc.file,
                            [last_modified |-> Now, etag |-> e_tag]),
                 acc.staging, acc.uploaded, lk)

\* The loop of abort_multipart_upload over the directory entries.
remove_matching(stg, prefix) ==
    [f \in {g \in DOMAIN stg : ~starts_with(g, prefix)} |-> stg[f]]

\* abort_multipart_upload
abort_multipart_upload(in) ==
    IF is_read_only THEN Same(Err("NotImplemented"), <<>>)
    ELSE LET upload_id == Uuid_parse_str(in.upload_id) IN
    IF upload_id = NoUuid THEN Same(Err("InvalidRequest"), <<>>)
    ELSE LET prefix == abort_prefix(upload_id) IN
         Outcome(Ok([done |-> TRUE]), buckets,
                 remove_matching(staging, prefix),
                 remove_matching(uploaded, prefix), <<>>)

---------------------------------------------------------------------------
(* The bucket verbs *)

\* The addresses the backend gives to bucket actors, in creation order.
BucketAddrs == <<"t2b1", "t2b2", "t2b3", "t2b4", "t2b5", "t2b6">>

\* Bucket::new committed: a new actor owned by the wallet
new_bucket(owner, metadata) ==
    [address |-> BucketAddrs[Len(buckets) + 1], owner |-> owner,
     metadata |-> metadata, objects |-> EmptyMap]

\* The backend call number in.rpc of the request fails.
RpcFails(in, n) == in.rpc = n

\* create_bucket without the lookup of the alias
create_bucket_unchecked(in) ==
    IF is_read_only THEN Same(Err("NotImplemented"), <<>>)
    ELSE IF ~check_bucket_name(in.bucket) THEN Same(Err("InvalidBucketName"), <<>>)
    ELSE LET bucket == BucketNameWithOwner_from(<<wallet>> \o <<".">> \o in.bucket) IN
    IF bucket.status # "ok" THEN Same(bucket, <<>>)
    ELSE IF RpcFails(in, 2) THEN Same(Custom("rpc error"), <<>>)
    ELSE LET b == new_bucket(bucket.owner,
                    [creation_date |-> Now, alias |-> bucket.name]) IN
         Outcome(Ok([location |-> <<b.address>>]), Append(buckets, b),
                 staging, uploaded, <<>>)

\* create_bucket
create_bucket(in) ==
    IF is_read_only THEN Same(Err("NotImplemented"), <<>>)
    ELSE IF ~check_bucket_name(in.bucket) THEN Same(Err("InvalidBucketName"), <<>>)
    ELSE LET bucket == BucketNameWithOwner_from(<<wallet>> \o <<".">> \o in.bucket) IN
    IF bucket.status # "ok" THEN Same(bucket, <<>>)
    ELSE LET r == get_bucket_address_by_alias(bucket, RpcFails(in, 1)) IN
    IF r.status # "ok" THEN Same(r, <<>>)
    ELSE LET lk == <<Lookup(bucket, r)>> IN
    IF r.address # NoBucket THEN Same(Err("BucketAlreadyExists"), lk)
    ELSE IF RpcFails(in, 2) THEN Same(Custom("rpc error"), lk)
    ELSE LET b == new_bucket(bucket.owner,
                    [creation_date |-> Now, alias |-> bucket.name]) IN
         Outcome(Ok([location |-> <<b.address>>]), Append(buckets, b),
                 staging, uploaded, lk)

\* head_bucket
head_bucket(in) ==
    LET bucket == BucketNameWithOwner_from(in.bucket) IN
    IF bucket.status # "ok" THEN Same(bucket, <<>>)
    ELSE LET r == get_bucket_address_by_alias(bucket, RpcFails(in, 1)) IN
    IF r.status # "ok" THEN Same(r, <<>>)
    ELSE LET lk == <<Lookup(bucket, r)>> IN
    IF r.address = NoBucket THEN Same(Err("NoSuchBucket"), lk)
    ELSE Same(Ok([done |-> TRUE]), lk)

\* An entry named by the address whether the bucket has an alias or not.
bucket_entry_by_address(data) ==
    [name |-> <<data.address>>,
     creation_date |-> IF "creation_date" \in DOMAIN data.metadata
                       THEN data.metadata["creation_date"] ELSE <<>>]

\* The loop of list_buckets over the wallet's buckets.
bucket_entry(data) ==
    [name |-> IF "alias" \in DOMAIN data.metadata
              THEN data.metadata["alias"] ELSE <<data.address>>,
     creation_date |-> IF "creation_date" \in DOMAIN data.metadata
                       THEN data.metadata["creation_date"] ELSE <<>>]

\* list_buckets
list_buckets(in) ==
    IF is_read_only THEN Same(Err("NotImplemented"), <<>>)
    ELSE IF RpcFails(in, 1) THEN Same(Custom("rpc error"), <<>>)
    ELSE LET list == bucket_list(ethers_address_to_fil_address(wallet)) IN
    IF \E i \in 1..Len(list) :
            /\ "creation_date" \in DOMAIN list[i].metadata
            /\ ~IsEpochSeconds(list[i].metadata["creation_date"])
    THEN Same(Panic, <<>>)
    ELSE Same(Ok([buckets |-> [i \in 1..Len(list) |-> bucket_entry(list[i])],
                  owner |-> <<>>]), <<>>)

\* get_bucket_location
get_bucket_location(in) == Same(Ok([location_constraint |-> <<>>]), <<>>)

---------------------------------------------------------------------------
(* The object verbs *)

\* The part of handlers that resolves the bucket of a request:
\* BucketNameWithOwner::from, then get_bucket_address_by_alias as call n.
resolve(bucket_name, in, n) ==
    LET bucket == BucketNameWithOwner_from(bucket_name) IN
    IF bucket.status # "ok" THEN [status |-> "err", resp |-> bucket, lk |-> <<>>]
    ELSE LET r == get_bucket_address_by_alias(bucket, RpcFails(in, n)) IN
    IF r.status # "ok" THEN [status |-> "err", resp |-> r, lk |-> <<>>]
    ELSE IF r.address = NoBucket
    THEN [status |-> "err", resp |-> Err("NoSuchBucket"),
          lk |-> <<Lookup(bucket, r)>>]
    ELSE [status |-> "ok", address |-> r.address, name |-> bucket.name,
          lk |-> <<Lookup(bucket, r)>>]

\* Basin::get_object(machine, key): the first object the query with
\* prefix = key returns
basin_get_object(objs, key, rpc_fails) ==
    IF rpc_fails THEN Custom("rpc error")
    ELSE LET object_list == query(objs, key, NoKey, 0) IN
    IF Len(object_list.objects) = 0 THEN Err("NoSuchKey")
    ELSE [status |-> "ok", object |-> object_list.objects[1][2]]

\* Recall::get_object(machine, key): the one object the query with
\* prefix = key, start_key = key and limit = 1 returns
recall_get_object(objs, key, rpc_fails) ==
    IF rpc_fails THEN Custom("rpc error")
    ELSE LET object_list == query(objs, key, key, 1) IN
    IF Len(object_list.objects) = 0 THEN Err("NoSuchKey")
    ELSE [status |-> "ok", object |-> object_list.objects[1][2]]

\* machine.get(key, writer) in the spawned task: what reaches the reader
\* of the duplex pipe.  cut: the download fails before the last byte.
download(objs, key, cut) ==
    IF key \notin DOMAIN objs THEN [bytes |-> <<>>, complete |-> FALSE]
    ELSE IF cut /\ objs[key].data # <<>>
    THEN [bytes |-> SubSeq(objs[key].data, 1, Len(objs[key].data) - 1),
          complete |-> FALSE]
    ELSE [bytes |-> objs[key].data, complete |-> TRUE]

NoValue == <<"none">>
metadata_get(metadata, k) == IF k \in DOMAIN metadata THEN metadata[k] ELSE NoValue

\* get_object, for a request without a Range header
get_object(in) ==
    LET b == resolve(in.bucket, in, 1) IN
    IF b.status # "ok" THEN Same(b.resp, b.lk)
    ELSE LET objs == ObjectsOf(b.address)
             o == basin_get_object(objs, in.key, RpcFails(in, 2)) IN
    IF o.status # "ok" THEN Same(o, b.lk)
    ELSE LET object == o.object
             content_length == object.size
             d == download(objs, in.key, in.cut)
         IN
    IF "last_modified" \in DOMAIN object.metadata
       /\ ~IsEpochSeconds(object.metadata["last_modified"])
    THEN Same(Panic, b.lk)
    ELSE Same(Ok([body |-> d.bytes, body_complete |-> d.complete,
                  content_length |-> content_length,
                  e_tag |-> metadata_get(object.metadata, "etag"),
                  content_range |-> NoValue,
                  last_modified |-> metadata_get(object.metadata, "last_modified")]),
              b.lk)

\* head_object
head_object(in) ==
    LET b == resolve(in.bucket, in, 1) IN
    IF b.status # "ok" THEN Same(b.resp, b.lk)
    ELSE IF RpcFails(in, 2) THEN Same(Custom("rpc error"), b.lk)
    ELSE LET object_list == query(ObjectsOf(b.address), in.key, NoKey, 0) IN
    IF Len(object_list.objects) = 0 THEN Same(Err("NoSuchKey"), b.lk)
    ELSE LET object_state == object_list.objects[1][2] IN
    IF "last_modified" \in DOMAIN object_state.metadata
       /\ ~IsEpochSeconds(object_state.metadata["last_modified"])
    THEN Same(Panic, b.lk)
    ELSE Same(Ok([content_length |-> object_state.size,
                  last_modified |-> metadata_get(object_state.metadata,
                                                 "last_modified")]),
              b.lk)

\* The loop `while let Some(Ok(v)) = body.next().await` of put_object: the
\* chunks before the end or the first error go to the file and the hasher.
read_body(body) ==
    [file |-> Concat(body.chunks),
     md5_hash |-> Md5_update(Md5_new, Concat(body.chunks))]

\* metadata.insert(key, value) for every pair of the user's map
insert_all(metadata, user) ==
    [k \in DOMAIN metadata \cup DOMAIN user |->
        IF k \in DOMAIN user THEN user[k] ELSE metadata[k]]

\* put_object submitting the add a second time when the first failed
put_object_retrying(in) ==
    IF is_read_only THEN Same(Err("NotImplemented"), <<>>)
    ELSE LET b == resolve(in.bucket, in, 1) IN
    IF b.status # "ok" THEN Same(b.resp, b.lk)
    ELSE IF ~in.body.present THEN Same(Err("IncompleteBody"), b.lk)
    ELSE LET f == read_body(in.body)
             e_tag == single_e_tag(hex(Md5_finalize(f.md5_hash)))
             metadata == insert_all([last_modified |-> Now, etag |-> e_tag],
                                    in.metadata)
         IN  Outcome(Ok([e_tag |-> e_tag]),
                     add_object(buckets, b.address, in.key, f.file, metadata),
                     staging, uploaded, b.lk)

\* put_object
put_object(in) ==
    IF is_read_only THEN Same(Err("NotImplemented"), <<>>)
    ELSE LET b == resolve(in.bucket, in, 1) IN
    IF b.status # "ok" THEN Same(b.resp, b.lk)
    ELSE IF ~in.body.present THEN Same(Err("IncompleteBody"), b.lk)
    ELSE LET f == read_body(in.body)
             md5_sum == hex(Md5_finalize(f.md5_hash))
             e_tag == single_e_tag(md5_sum)
             metadata == insert_all([last_modified |-> Now, etag |-> e_tag],
                                    in.metadata)
         IN
    IF RpcFails(in, 2) THEN Same(Custom("rpc error"), b.lk)
    ELSE Outcome(Ok([e_tag |-> e_tag]),
                 add_object(buckets, b.address, in.key, f.file, metadata),
                 staging, uploaded, b.lk)

\* copy_object; the source is CopySource::Bucket unless in.access_point
copy_object(in) ==
    IF in.access_point THEN Same(Err("NotImplemented"), <<>>)
    ELSE LET src_bucket == BucketNameWithOwner_from(in.src_bucket) IN
    IF src_bucket.status # "ok" THEN Same(src_bucket, <<>>)
    ELSE LET dst_bucket == BucketNameWithOwner_from(in.bucket) IN
    IF dst_bucket.status # "ok" THEN Same(dst_bucket, <<>>)
    ELSE LET s == get_bucket_address_by_alias(src_bucket, RpcFails(in, 1)) IN
    IF s.status # "ok" THEN Same(s, <<>>)
    ELSE LET lk1 == <<Lookup(src_bucket, s)>> IN
    IF s.address = NoBucket THEN Same(Err("NoSuchBucket"), lk1)
    ELSE LET objs == ObjectsOf(s.address)
             o == basin_get_object(objs, in.src_key, RpcFails(in, 2)) IN
    IF o.status # "ok" THEN Same(o, lk1)
    ELSE LET src_object == o.object
             file == download(objs, in.src_key, in.cut).bytes
         IN
    IF wallet = NoWallet THEN Same(Panic, lk1)
    ELSE LET t == get_bucket_address_by_alias(dst_bucket, RpcFails(in, 3)) IN
    IF t.status # "ok" THEN Same(t, lk1)
    ELSE LET lk2 == lk1 \o <<Lookup(dst_bucket, t)>> IN
    IF t.address = NoBucket THEN Same(Err("NoSuchBucket"), lk2)
    ELSE IF "etag" \notin DOMAIN src_object.metadata
    THEN Same(Custom("no etag"), lk2)
    ELSE LET e_tag == src_object.metadata["etag"] IN
    IF RpcFails(in, 4) THEN Same(Custom("rpc error"), lk2)
    ELSE Outcome(Ok([last_modified |-> Now]),
                 add_object(buckets, t.address, in.key, file,
                            [last_modified |-> Now, etag |-> e_tag]),
                 staging, uploaded, lk2)

\* delete_object answering Ok when the bucket is not found
delete_object_lenient(in) ==
    IF is_read_only THEN Same(Err("NotImplemented"), <<>>)
    ELSE LET b == resolve(in.bucket, in, 1) IN
    IF b.status # "ok" /\ b.lk = <<>> THEN Same(b.resp, b.lk)
    ELSE IF b.status # "ok" THEN Same(Ok([done |-> TRUE]), b.lk)
    ELSE IF RpcFails(in, 2) THEN Same(Custom("rpc error"), b.lk)
    ELSE Outcome(Ok([done |-> TRUE]), delete_key(buckets, b.address, in.key),
                 staging, uploaded, b.lk)

\* delete_object
delete_object(in) ==
    IF is_read_only THEN Same(Err("NotImplemented"), <<>>)
    ELSE LET b == resolve(in.bucket, in, 1) IN
    IF b.status # "ok" THEN Same(b.resp, b.lk)
    ELSE IF RpcFails(in, 2) THEN Same(Custom("rpc error"), b.lk)
    ELSE Outcome(Ok([done |-> TRUE]), delete_key(buckets, b.address, in.key),
                 staging, uploaded, b.lk)

RECURSIVE delete_each_all(_, _, _, _, _)
delete_each_all(bs, address, keys, i, in) ==
    IF keys = <<>> THEN [err |-> NoErr, buckets |-> bs]
    ELSE LET rest == delete_each_all(delete_key(bs, address, Head(keys)),
                                     address, Tail(keys), i + 1, in) IN
         IF RpcFails(in, i + 1)
         THEN [err |-> Custom("rpc error"), buckets |-> rest.buckets]
         ELSE rest

\* The loop of delete_objects: one delete per key, in request order; the
\* delete of key number i is backend call i + 1 of the request.
RECURSIVE delete_each(_, _, _, _, _)
delete_each(bs, address, keys, i, in) ==
    IF keys = <<>> THEN [err |-> NoErr, buckets |-> bs]
    ELSE IF RpcFails(in, i + 1) THEN [err |-> Custom("rpc error"), buckets |-> bs]
    ELSE delete_each(delete_key(bs, address, Head(keys)), address,
                     Tail(keys), i + 1, in)

\* delete_objects
delete_objects(in) ==
    IF is_read_only THEN Same(Err("NotImplemented"), <<>>)
    ELSE LET b == resolve(in.bucket, in, 1) IN
    IF b.status # "ok" THEN Same(b.resp, b.lk)
    ELSE LET d == delete_each(buckets, b.address, in.keys, 1, in) IN
    IF d.err # NoErr THEN Outcome(d.err, d.buckets, staging, uploaded, b.lk)
    ELSE Outcome(Ok([done |-> TRUE]), d.buckets, staging, uploaded, b.lk)

MAX_LIST_OBJECTS_KEYS == 1000

Min(a, b) == IF a <= b THEN a ELSE b

\* An absent max_keys.
NoMaxKeys == <<>>

\* The limit without the final min
list_limit_unclamped(max_keys) ==
    IF max_keys = NoMaxKeys THEN MAX_LIST_OBJECTS_KEYS
    ELSE IF max_keys[1] < 0 THEN MAX_LIST_OBJECTS_KEYS ELSE max_keys[1]

\* input.max_keys.map_or(MAX, |v| v.try_into().unwrap_or(MAX)).min(MAX)
list_limit(max_keys) ==
    IF max_keys = NoMaxKeys THEN MAX_LIST_OBJECTS_KEYS
    ELSE Min(IF max_keys[1] < 0 THEN MAX_LIST_OBJECTS_KEYS ELSE max_keys[1],
             MAX_LIST_OBJECTS_KEYS)

\* The loop of list_objects_v2 over the objects the query returned.
object_entry(kv) ==
    [key |-> kv[1], size |-> kv[2].size,
     last_modified |-> metadata_get(kv[2].metadata, "last_modified")]

\* list_objects_v2
list_objects_v2(in) ==
    LET b == resolve(in.bucket, in, 1) IN
    IF b.status # "ok" THEN Same(b.resp, b.lk)
    ELSE LET prefix == IF in.prefix = NoValue THEN <<>> ELSE in.prefix
             limit == list_limit(in.max_keys)
             start_key == IF in.continuation_token = NoValue THEN NoKey
                          ELSE in.continuation_token
         IN
    IF RpcFails(in, 2) THEN Same(Custom("rpc error"), b.lk)
    ELSE LET response == query(ObjectsOf(b.address), prefix, start_key, limit) IN
    IF \E i \in 1..Len(response.objects) :
            /\ "last_modified" \in DOMAIN response.objects[i][2].metadata
            /\ ~IsEpochSeconds(response.objects[i][2].metadata["last_modified"])
    THEN Same(Panic, b.lk)
    ELSE LET next_continuation_token ==
                IF response.next_key = NoKey THEN NoValue ELSE response.next_key
         IN
         Same(Ok([key_count |-> Len(response.objects),
                  max_keys |-> MAX_LIST_OBJECTS_KEYS,
                  contents |-> [i \in 1..Len(response.objects) |->
                                    object_entry(response.objects[i])],
                  delimiter |-> in.delimiter,
                  common_prefixes |-> response.common_prefixes,
                  name |-> b.name,
                  prefix |-> in.prefix,
                  is_truncated |-> next_continuation_token # NoValue,
                  continuation_token |-> in.continuation_token,
                  next_continuation_token |-> next_continuation_token]),
              b.lk)

\* ListObjectsV2Input::from(ListObjectsInput) of req.map_input(Into::into):
\* the fields both requests have are kept and the converted request carries
\* no continuation token.  The record of a v1 request holds its marker in
\* the field continuation_token.
v2_input_from(in) == [in EXCEPT !.continuation_token = NoValue]

\* list_objects: the v2 listing of the converted request, with the marker
\* fields taken from the v2 tokens
list_objects(in) ==
    LET v2 == list_objects_v2(v2_input_from(in)) IN
    IF v2.resp.status # "ok" THEN v2
    ELSE [v2 EXCEPT !.resp.out =
            [contents |-> @.contents, delimiter |-> @.delimiter,
             name |-> @.name, prefix |-> @.prefix,
             common_prefixes |-> @.common_prefixes,
             max_keys |-> @.max_keys, is_truncated |-> @.is_truncated,
             marker |-> @.continuation_token,
             next_marker |-> @.next_continuation_token]]

---------------------------------------------------------------------------
(* The name functions applied to every bucket string of up to MaxNameSyms *)
(* symbols.                                                                *)

NameSyms == {"a", "7", ".", "-", "A", W18, ADDR1, ADDR2}

RECURSIVE StrsUpTo(_, _)
StrsUpTo(S, n) ==
    IF n = 0 THEN {<<>>}
    ELSE LET shorter == StrsUpTo(S, n - 1) IN
         shorter \cup {<<c>> \o s : c \in S, s \in {t \in shorter : Len(t) = n - 1}}

\* Every string of up to MaxNameSyms symbols, bare and behind an address
\* and a dot.
NameInputs ==
    StrsUpTo(NameSyms, MaxNameSyms)
    \cup {<<a, ".">> \o s : a \in EthAddrs, s \in StrsUpTo(NameSyms, MaxNameSyms)}

\* No handler runs concurrently with another.
NoTasks == <<>>

\* No download is in flight.
NoPipe == <<>>

GatewayIdle ==
    /\ buckets = <<>>
    /\ staging = EmptyMap
    /\ uploaded = EmptyMap
    /\ written = EmptyMap
    /\ req = [verb |-> "none"]
    /\ resp = [status |-> "none"]
    /\ lookups = <<>>
    /\ tasks = NoTasks
    /\ counted = <<>>
    /\ pipe = NoPipe

InitNames ==
    /\ wallet \in {NoWallet, ADDR1}
    /\ GatewayIdle
    /\ fnIn \in {[fn |-> "none", arg |-> n] : n \in NameInputs}
    /\ fnOut = [status |-> "none"]

ApplyCheckBucketName ==
    /\ fnIn.fn = "none"
    /\ fnIn' = [fnIn EXCEPT !.fn = "check_bucket_name"]
    /\ fnOut' = [status |-> "ok", value |-> check_bucket_name(fnIn.arg)]
    /\ UNCHANGED <<wallet, buckets, staging, uploaded, written, req, resp, lookups,
                 tasks, counted, pipe>>

ApplyFrom ==
    /\ fnIn.fn = "none"
    /\ fnIn' = [fnIn EXCEPT !.fn = "from"]
    /\ fnOut' = BucketNameWithOwner_from(fnIn.arg)
    /\ UNCHANGED <<wallet, buckets, staging, uploaded, written, req, resp, lookups,
                 tasks, counted, pipe>>

ApplyGetBucketPath ==
    /\ fnIn.fn = "none"
    /\ fnIn' = [fnIn EXCEPT !.fn = "get_bucket_path"]
    /\ fnOut' = get_bucket_path(wallet, fnIn.arg)
    /\ UNCHANGED <<wallet, buckets, staging, uploaded, written, req, resp, lookups,
                 tasks, counted, pipe>>

NextNames == ApplyCheckBucketName \/ ApplyFrom \/ ApplyGetBucketPath

SpecNames == InitNames /\ [][NextNames]_vars

\* The name grammar: 3 to 20 bytes, each a lowercase letter, a digit, '.'
\* or '-', the first and the last a letter or a digit, no "..".
InGrammar(n) ==
    /\ StrLen(n) >= 3 /\ StrLen(n) <= 20
    /\ \A i \in 1..Len(n) : AllBytesNameChars(n[i])
    /\ FirstByteAlnum(n[1]) /\ LastByteAlnum(n[Len(n)])
    /\ \A i \in 1..(Len(n) - 1) : ~(n[i] = "." /\ n[i + 1] = ".")

\* C8: check_bucket_name(n) is true iff n is 3 to 20 bytes long, every
\* byte is a lowercase letter, a digit, '.' or '-', the first and the last
\* byte are a lowercase letter or a digit, and n contains no "..".
C8_CheckBucketNameGrammar ==
    fnIn.fn = "check_bucket_name" => (fnOut.value <=> InGrammar(fnIn.arg))

\* A name of exactly 20 bytes with a dot and a dash was accepted.
C8_Witness ==
    /\ fnIn.fn = "check_bucket_name"
    /\ fnOut.value
    /\ StrLen(fnIn.arg) = 20
    /\ \E i \in 1..Len(fnIn.arg) : fnIn.arg[i] \in {".", "-"}

\* A bucket string of the prefix form: an address, a dot, the rest.
HasAddressPrefix(b) == Len(b) >= 2 /\ b[1] \in EthAddrs /\ b[2] = "."
AfterPrefix(b) == SubSeq(b, 3, Len(b))
HasDot(b) == \E i \in 1..Len(b) : b[i] = "."

\* C9: a bucket string <address>.<rest> is split on its first '.': the
\* owner is the address and the resolved name is exactly rest, further
\* dots preserved; a string with no '.' or with an empty rest is rejected.
\* Stated of BucketNameWithOwner::from and of get_bucket_path, which
\* splits with split_eth_address.
C9_SplitOnFirstDot ==
    fnIn.fn \in {"from", "get_bucket_path"} =>
        /\ (HasAddressPrefix(fnIn.arg) /\ InGrammar(AfterPrefix(fnIn.arg)))
                => /\ fnOut.status = "ok"
                   /\ fnOut.name = AfterPrefix(fnIn.arg)
                   /\ fnOut.owner = ethers_address_to_fil_address(fnIn.arg[1])
        /\ (HasAddressPrefix(fnIn.arg) /\ AfterPrefix(fnIn.arg) = <<>>)
                => fnOut.status = "err"
        /\ (fnIn.fn = "from" /\ ~HasDot(fnIn.arg)) => fnOut.status = "err"
        /\ (fnIn.fn = "get_bucket_path" /\ wallet = NoWallet /\ ~HasDot(fnIn.arg))
                => fnOut.status = "err"

\* C10: on a gateway without a wallet, get_bucket_path(b) fails with the
\* custom error "owner address prefix is missing" for every b that does
\* not start with a valid address followed by '.', and succeeds with
\* owner = the prefix address when b has that prefix and a valid name.
C10_NoWalletNeedsPrefix ==
    (fnIn.fn = "get_bucket_path" /\ wallet = NoWallet) =>
        /\ ~HasAddressPrefix(fnIn.arg)
                => fnOut = Custom("owner address prefix is missing")
        /\ (HasAddressPrefix(fnIn.arg) /\ InGrammar(AfterPrefix(fnIn.arg)))
                => /\ fnOut.status = "ok"
                   /\ fnOut.owner = ethers_address_to_fil_address(fnIn.arg[1])

\* C11: on a gateway with a wallet, get_bucket_path(b) resolves a bare
\* name b (no valid address before its first '.') to owner = the wallet's
\* address and name = b, and resolves an explicit <addr>.<name> to
\* owner = addr, whether or not addr is the wallet's address.
C11_WalletBareAndExplicit ==
    (fnIn.fn = "get_bucket_path" /\ wallet # NoWallet) =>
        /\ (~HasAddressPrefix(fnIn.arg) /\ InGrammar(fnIn.arg))
                => /\ fnOut.status = "ok"
                   /\ fnOut.owner = ethers_address_to_fil_address(wallet)
                   /\ fnOut.name = fnIn.arg
        /\ (HasAddressPrefix(fnIn.arg) /\ InGrammar(AfterPrefix(fnIn.arg)))
                => /\ fnOut.status = "ok"
                   /\ fnOut.owner = ethers_address_to_fil_address(fnIn.arg[1])

---------------------------------------------------------------------------
(* The range translator *)

\* Largest object size, and largest first, last and suffix length of a
\* range (besides 1000), given to the translator.
MaxRange == 10

\* u64 values.  n >= 0 stands for n and -m, m >= 1, stands for 2^64 - m, so
\* that the sum and the difference of two encodings encode the sum and the
\* difference modulo 2^64.
u64_le(a, b) == IF (a < 0) = (b < 0) THEN a <= b ELSE b < 0
u64_lt(a, b) == a # b /\ u64_le(a, b)

\* a - b and whether it leaves the range of u64
u64_sub(a, b) == [v |-> a - b, overflow |-> u64_lt(a, b)]

\* a + b and whether it leaves the range of u64
u64_add(a, b) ==
    [v |-> a + b,
     overflow |-> (a < 0 /\ b < 0) \/ ((a < 0) # (b < 0) /\ a + b >= 0)]

\* Display of a u64
u64_to_string(v) ==
    IF v >= 0 THEN to_string(v)
    ELSE <<"18446744073709551616-">> \o to_string(0 - v)

\* Option<u64>
None == <<>>
Some(v) == <<v>>

\* s3s::dto::Range
RangeInt(first, last) == [kind |-> "Int", first |-> first, last |-> last]
RangeSuffix(length) == [kind |-> "Suffix", length |-> length]

\* HTTPRangeSpec::new
HTTPRangeSpec_new(range) ==
    IF range.kind = "Int"
    THEN [start |-> Some(range.first), end |-> range.last]
    ELSE [start |-> None, end |-> Some(range.length)]

\* A returned (offset, length)
OffsetLength(offset, length) ==
    [status |-> "ok", offset |-> offset, length |-> length]

suffix_offset_length_unclamped(end, size, overflow_checks) ==
    LET d == u64_sub(size, end) IN
    IF d.overflow /\ overflow_checks THEN Panic ELSE OffsetLength(d.v, end)

\* The arm (None, Some(end)) of get_offset_length
suffix_offset_length(end, size, overflow_checks) ==
    IF u64_le(end, size)
    THEN LET d == u64_sub(size, end) IN
         IF d.overflow /\ overflow_checks THEN Panic
         ELSE OffsetLength(d.v, end)
    ELSE OffsetLength(0, size)

\* HTTPRangeSpec::get_offset_length(size); overflow_checks: the build
\* panics on arithmetic overflow (it wraps otherwise).
get_offset_length(self, size, overflow_checks) ==
    IF self.start # None /\ self.end # None /\ u64_le(self.start[1], self.end[1])
    THEN LET start == self.start[1]
             end == self.end[1] IN
         IF u64_le(size, end)
         THEN LET d == u64_sub(size, 1) IN
              IF d.overflow /\ overflow_checks THEN Panic
              ELSE OffsetLength(start, d.v)
         ELSE LET d == u64_sub(end, start)
                  l == u64_add(d.v, 1) IN
              IF (d.overflow \/ l.overflow) /\ overflow_checks THEN Panic
              ELSE OffsetLength(start, l.v)
    ELSE IF self.start # None /\ self.end = None /\ u64_lt(self.start[1], size)
    THEN LET d == u64_sub(size, self.start[1]) IN
         IF d.overflow /\ overflow_checks THEN Panic
         ELSE OffsetLength(self.start[1], d.v)
    ELSE IF self.start = None /\ self.end # None /\ u64_lt(0, self.end[1])
    THEN suffix_offset_length(self.end[1], size, overflow_checks)
    ELSE Panic

\* format!("bytes {}-{}/{}", a, b, size)
fmt_bytes(a, b, size) ==
    <<"bytes ">> \o u64_to_string(a) \o <<"-">> \o u64_to_string(b)
        \o <<"/">> \o u64_to_string(size)

\* HTTPRangeSpec::to_header(size): (length, Content-Range)
to_header(self, size, overflow_checks) ==
    LET r == get_offset_length(self, size, overflow_checks) IN
    IF r.status # "ok" THEN r
    ELSE LET e == u64_add(r.offset, r.length) IN
         IF e.overflow /\ overflow_checks THEN Panic
         ELSE [status |-> "ok", length |-> r.length,
               header |-> fmt_bytes(r.offset, e.v, size)]

\* fmt_content_range(start, end_inclusive, size)
fmt_content_range(start, end_inclusive, size) ==
    fmt_bytes(start, end_inclusive, size)

\* get_object, from the answer of Range::check(file_len) to
\* (content_length, content_range); file_range is the window start..end
\* (end exclusive) or the error of the check.
content_length_and_range(file_range, file_len, overflow_checks) ==
    IF file_range.status # "ok" THEN file_range
    ELSE LET content_length == u64_sub(file_range.end, file_range.start)
             end_inclusive == u64_sub(file_range.end, 1) IN
         IF (content_length.overflow \/ end_inclusive.overflow) /\ overflow_checks
         THEN Panic
         ELSE [status |-> "ok", content_length |-> content_length.v,
               content_range |->
                    fmt_content_range(file_range.start, end_inclusive.v, file_len)]

\* The numbers in a range, and the ranges.
RangeVals == 0..MaxRange \cup {1000}
Ranges ==
    {RangeInt(first, last) :
        first \in RangeVals, last \in {None} \cup {Some(v) : v \in RangeVals}}
    \cup {RangeSuffix(length) : length \in RangeVals}

\* The windows Range::check answers with over an object of a size: not
\* empty and inside the object.
Window(start, end) == [status |-> "ok", start |-> start, end |-> end]
CheckedWindows(size) ==
    {w \in {Window(start, end) : start \in 0..size, end \in 0..size} :
        w.start < w.end}

InitRange ==
    /\ wallet = ADDR1
    /\ GatewayIdle
    /\ fnIn \in {[fn |-> "none",
                  arg |-> [range |-> r, size |-> size, overflow_checks |-> c]] :
                    r \in Ranges, size \in 0..MaxRange, c \in BOOLEAN}
    /\ fnOut = [status |-> "none"]

ApplyGetOffsetLength ==
    /\ fnIn.fn = "none"
    /\ fnIn' = [fnIn EXCEPT !.fn = "get_offset_length"]
    /\ fnOut' = get_offset_length(HTTPRangeSpec_new(fnIn.arg.range),
                                  fnIn.arg.size, fnIn.arg.overflow_checks)
    /\ UNCHANGED <<wallet, buckets, staging, uploaded, written, req, resp, lookups,
                 tasks, counted, pipe>>

ApplyToHeader ==
    /\ fnIn.fn = "none"
    /\ fnIn' = [fnIn EXCEPT !.fn = "to_header"]
    /\ fnOut' = to_header(HTTPRangeSpec_new(fnIn.arg.range),
                          fnIn.arg.size, fnIn.arg.overflow_checks)
    /\ UNCHANGED <<wallet, buckets, staging, uploaded, written, req, resp, lookups,
                 tasks, counted, pipe>>

ApplyContentRange ==
    /\ fnIn.fn = "none"
    /\ \E file_range \in CheckedWindows(fnIn.arg.size) \cup {Err("InvalidRange")} :
        /\ fnIn' = [fn |-> "content_range",
                    arg |-> [range |-> fnIn.arg.range, size |-> fnIn.arg.size,
                             overflow_checks |-> fnIn.arg.overflow_checks,
                             file_range |-> file_range]]
        /\ fnOut' = content_length_and_range(file_range, fnIn.arg.size,
                                             fnIn.arg.overflow_checks)
    /\ UNCHANGED <<wallet, buckets, staging, uploaded, written, req, resp, lookups,
                 tasks, counted, pipe>>

NextRange == ApplyGetOffsetLength \/ ApplyToHeader \/ ApplyContentRange

SpecRange == InitRange /\ [][NextRange]_vars

\* The range of a request by its shape.
IsInt(r) == r.kind = "Int"
IsClosed(r) == r.kind = "Int" /\ r.last # None
IsOpen(r) == r.kind = "Int" /\ r.last = None
IsSuffix(r) == r.kind = "Suffix"

\* C12: for a range {first, last} with first <= last over an object of a
\* size (first inside the object), the translator returns offset = first
\* and length = min(last, size - 1) - first + 1.
C12_ClosedRange ==
    (fnIn.fn = "get_offset_length" /\ IsClosed(fnIn.arg.range)
     /\ fnIn.arg.range.first <= fnIn.arg.range.last[1]
     /\ fnIn.arg.range.first < fnIn.arg.size)
        => fnOut = OffsetLength(fnIn.arg.range.first,
                        Min(fnIn.arg.range.last[1], fnIn.arg.size - 1)
                            - fnIn.arg.range.first + 1)

\* C13: for an open-ended range {first, none} with first < size the
\* translator returns (first, size - first); for a suffix range with
\* suffix > 0 it returns (size - suffix, suffix) when suffix <= size and
\* (0, size) otherwise.
C13_OpenAndSuffixRange ==
    fnIn.fn = "get_offset_length" =>
        /\ (IsOpen(fnIn.arg.range) /\ fnIn.arg.range.first < fnIn.arg.size)
                => fnOut = OffsetLength(fnIn.arg.range.first,
                                fnIn.arg.size - fnIn.arg.range.first)
        /\ (IsSuffix(fnIn.arg.range) /\ fnIn.arg.range.length > 0)
                => fnOut = IF fnIn.arg.range.length <= fnIn.arg.size
                           THEN OffsetLength(fnIn.arg.size - fnIn.arg.range.length,
                                             fnIn.arg.range.length)
                           ELSE OffsetLength(0, fnIn.arg.size)

\* bytes=-1000 over an object of 10 bytes was translated to (0, 10).
C13_Witness ==
    /\ fnIn.fn = "get_offset_length"
    /\ fnIn.arg.range = RangeSuffix(1000)
    /\ fnIn.arg.size = 10
    /\ fnOut = OffsetLength(0, 10)

\* C14: for every range the translator accepts over an object of a size,
\* the window lies inside the object: with start = offset and
\* end_inclusive = offset + length - 1, content_length = end_inclusive -
\* start + 1 and 0 <= start <= end_inclusive < size.
C14_WindowInsideObject ==
    /\ (fnIn.fn = "get_offset_length" /\ fnOut.status = "ok")
            => LET start == fnOut.offset
                   end_inclusive == fnOut.offset + fnOut.length - 1 IN
               /\ fnOut.length = end_inclusive - start + 1
               /\ 0 <= start /\ start <= end_inclusive
               /\ end_inclusive < fnIn.arg.size
    /\ (fnIn.fn = "content_range" /\ fnOut.status = "ok")
            => LET start == fnIn.arg.file_range.start
                   end_inclusive == fnIn.arg.file_range.end - 1 IN
               /\ fnOut.content_length = end_inclusive - start + 1
               /\ 0 <= start /\ start <= end_inclusive
               /\ end_inclusive < fnIn.arg.size

\* A range that is not one of the valid shapes over an object of a size.
InvalidShape(r, size) ==
    \/ IsClosed(r) /\ r.first > r.last[1]
    \/ IsInt(r) /\ r.first >= size
    \/ IsSuffix(r) /\ r.length = 0

\* C15: a range that is not one of the valid shapes (first > last,
\* first >= size, a suffix of length 0) is rejected with InvalidRange: the
\* translator yields no offset/length pair and ends in no other way.
C15_InvalidShapeRejected ==
    (fnIn.fn \in {"get_offset_length", "to_header"}
     /\ InvalidShape(fnIn.arg.range, fnIn.arg.size))
        => fnOut = Err("InvalidRange")

\* C16: the Content-Range header of a ranged read with the translated
\* (offset, length) over an object of a size is
\* "bytes <offset>-<offset+length-1>/<size>".
C16_ContentRangeInclusiveEnd ==
    /\ (fnIn.fn = "to_header" /\ fnOut.status = "ok")
            => LET r == get_offset_length(HTTPRangeSpec_new(fnIn.arg.range),
                            fnIn.arg.size, fnIn.arg.overflow_checks) IN
               fnOut.header =
                    fmt_bytes(r.offset, r.offset + r.length - 1, fnIn.arg.size)
    /\ (fnIn.fn = "content_range" /\ fnOut.status = "ok")
            => fnOut.content_range =
                    fmt_bytes(fnIn.arg.file_range.start,
                              fnIn.arg.file_range.start + fnOut.content_length - 1,
                              fnIn.arg.size)

---------------------------------------------------------------------------
(* The call counter *)

\* S3ActionCounter::new(action) at the start of the handler of a verb
counter_action(verb) ==
    CASE verb = "AbortMultipartUpload" -> "abort_multipart_upload"
      [] verb = "CompleteMultipartUpload" -> "complete_multipart_upload"
      [] verb = "CopyObject" -> "copy_object"
      [] verb = "CreateBucket" -> "create_bucket"
      [] verb = "CreateMultipartUpload" -> "create_multipart_upload"
      [] verb = "DeleteObject" -> "delete_object"
      [] verb = "DeleteObjects" -> "delete_objects"
      [] verb = "GetObject" -> "get_object"
      [] verb = "HeadBucket" -> "head_bucket"
      [] verb = "HeadObject" -> "head_object"
      [] verb = "ListBuckets" -> "list_buckets"
      [] verb = "ListObjects" -> "list_objects"
      [] verb = "ListObjectsV2" -> "list_objects_v2"
      [] verb = "PutObject" -> "put_object"
      [] verb = "UploadPart" -> "upload_part"
      [] verb = "GetBucketLocation" -> "get_bucket_location"

\* Drop for S3ActionCounter: one increment, labelled with the action and
\* with success only if the handler set success before it returned Ok; a
\* panic unwinds through the drop with success still false.
drop(action, r) ==
    [action |-> action,
     status |-> IF r.status = "ok" THEN "success" ELSE "error"]

\* The counters dropped while a request is handled, in the order of the
\* drops: list_objects holds its counter while the list_objects_v2 it
\* calls creates and drops its own.
drops(in, r) ==
    IF in.verb = "ListObjects"
    THEN <<drop(counter_action("ListObjectsV2"), r),
           drop(counter_action(in.verb), r)>>
    ELSE <<drop(counter_action(in.verb), r)>>

---------------------------------------------------------------------------
(* The download pipe of get_object: tokio::io::duplex, whose writer half   *)
(* goes to the spawned task and whose reader half is the response body     *)

\* max_buf_size of tokio::io::duplex(4096), in bytes of the model's bodies
DuplexCapacity == 2

\* The pipe and the task right after tokio::spawn.  bytes: what machine.get
\* is to write before it returns; complete: it then returns Ok; sent: the
\* bytes it has written; buf: the bytes in the pipe; got: the bytes the
\* client has read from the body.
spawn_download(d, reader) ==
    [bytes |-> d.bytes, complete |-> d.complete, sent |-> 0, buf |-> <<>>,
     got |-> <<>>, task |-> "running", reader |-> reader]

\* poll_write that tells a full pipe before it tells a dropped reader
poll_write_full_first(p) ==
    IF Len(p.buf) >= DuplexCapacity THEN "Pending"
    ELSE IF p.reader = "dropped" THEN "BrokenPipe"
    ELSE "Ready"

\* poll_write of the writer half: an error once the reader half is
\* dropped, Pending while the pipe is full
poll_write(p) ==
    IF p.reader = "dropped" THEN "BrokenPipe"
    ELSE IF Len(p.buf) >= DuplexCapacity THEN "Pending"
    ELSE "Ready"

\* The bytes a write may take: what is left of the download, as far as
\* the pipe has room.
writable(p) == Min(Len(p.bytes) - p.sent, DuplexCapacity - Len(p.buf))

\* A read that leaves the bytes it returns in the pipe
duplex_read_peek(p, n) == [p EXCEPT !.got = @ \o SubSeq(p.buf, 1, n)]

\* n bytes go from the task into the pipe
duplex_write(p, n) ==
    [p EXCEPT !.buf = @ \o SubSeq(p.bytes, p.sent + 1, p.sent + n),
              !.sent = @ + n]

\* n bytes go from the pipe to the client
duplex_read(p, n) ==
    [p EXCEPT !.got = @ \o SubSeq(p.buf, 1, n),
              !.buf = SubSeq(@, n + 1, Len(@))]

\* poll_read of the reader half: bytes while the pipe holds some, the end
\* of the stream once the writer half is dropped, Pending otherwise; the
\* task owns the writer and drops it when it ends.
poll_read(p) ==
    IF p.buf # <<>> THEN "Ready"
    ELSE IF p.task # "running" THEN "Eof"
    ELSE "Pending"

\* The download a request leaves running: get_object spawns it before it
\* parses last_modified, so a handler that panics there has spawned it
\* and drops the reader.
streaming(in, out) ==
    IF in.verb = "GetObject" /\ out.resp.status \in {"ok", "panic"}
    THEN spawn_download(download(ObjectsOf(out.lookups[1].address), in.key, in.cut),
                        IF out.resp.status = "ok" THEN "open" ELSE "dropped")
    ELSE NoPipe

---------------------------------------------------------------------------
(* The server: one request at a time is taken, handled and answered *)

\* The object a key of a bucket holds, or no object.
NoObject == [size |-> 0, data |-> <<>>, metadata |-> EmptyMap, absent |-> TRUE]
object_at(bs, e) ==
    LET held == {i \in 1..Len(bs) :
                    bs[i].address = e[1] /\ e[2] \in DOMAIN bs[i].objects} IN
    IF held = {} THEN NoObject ELSE bs[CHOOSE i \in held : TRUE].objects[e[2]]

\* The bodies of the parts a completed upload listed, if each part file was
\* written by a successful UploadPart.
listed_bodies(in) ==
    LET upload_id == Uuid_parse_str(in.upload_id)
        parts == in.multipart_upload.parts
    IN  [i \in 1..Len(parts) |->
            uploaded[get_upload_part_path(upload_id, parts[i])]]
all_listed_uploaded(in) ==
    \A i \in 1..Len(in.multipart_upload.parts) :
        get_upload_part_path(Uuid_parse_str(in.upload_id),
                             in.multipart_upload.parts[i]) \in DOMAIN uploaded

\* The history of writes after a request: entries of objects the request
\* changed are dropped, and a successful PutObject or
\* CompleteMultipartUpload records what it was given.
written_after(in, out) ==
    LET kept == [e \in {x \in DOMAIN written :
                            object_at(out.buckets, x) = object_at(buckets, x)}
                    |-> written[e]]
    IN  IF out.resp.status # "ok" THEN kept
        ELSE IF in.verb = "PutObject"
        THEN MapPut(kept, <<out.lookups[1].address, in.key>>,
                    [verb |-> in.verb, bodies |-> <<Concat(in.body.chunks)>>])
        ELSE IF in.verb = "CompleteMultipartUpload"
        THEN IF all_listed_uploaded(in)
             THEN MapPut(kept, <<out.lookups[1].address, in.key>>,
                         [verb |-> in.verb, bodies |-> listed_bodies(in)])
             ELSE MapDel(kept, <<out.lookups[1].address, in.key>>)
        ELSE kept

\* The handler of a request ran to its response: out is what it returned
\* and the state it left.
Respond(in, out) ==
    /\ req.verb = "none"
    /\ written' = written_after(in, out)
    /\ req' = in
    /\ resp' = out.resp
    /\ buckets' = out.buckets
    /\ staging' = out.staging
    /\ uploaded' = out.uploaded
    /\ lookups' = out.lookups
    /\ counted' = drops(in, out.resp)
    /\ pipe' = streaming(in, out)
    /\ UNCHANGED <<wallet, fnIn, fnOut, tasks>>

\* The response is written and the connection serves its next request.
ServeNext ==
    /\ req.verb # "none"
    /\ req' = [verb |-> "none"]
    /\ resp' = [status |-> "none"]
    /\ lookups' = <<>>
    /\ counted' = <<>>
    /\ pipe' = NoPipe
    /\ UNCHANGED <<wallet, buckets, staging, uploaded, written, fnIn, fnOut,
                 tasks>>

StepCreateBucket(Inputs) ==
    \E in \in Inputs :
        /\ Len(buckets) < MaxBuckets
        /\ Respond(in, create_bucket(in))
StepHeadBucket(Inputs) == \E in \in Inputs : Respond(in, head_bucket(in))
StepListBuckets(Inputs) == \E in \in Inputs : Respond(in, list_buckets(in))
StepGetBucketLocation(Inputs) ==
    \E in \in Inputs : Respond(in, get_bucket_location(in))
StepPutObject(Inputs) == \E in \in Inputs : Respond(in, put_object(in))
StepGetObject(Inputs) == \E in \in Inputs : Respond(in, get_object(in))
StepHeadObject(Inputs) == \E in \in Inputs : Respond(in, head_object(in))
StepCopyObject(Inputs) == \E in \in Inputs : Respond(in, copy_object(in))
StepDeleteObject(Inputs) == \E in \in Inputs : Respond(in, delete_object(in))
StepDeleteObjects(Inputs) == \E in \in Inputs : Respond(in, delete_objects(in))
StepListObjects(Inputs) == \E in \in Inputs : Respond(in, list_objects(in))
StepListObjectsV2(Inputs) == \E in \in Inputs : Respond(in, list_objects_v2(in))
StepCreateMultipartUpload(Inputs, Uuids) ==
    \E in \in Inputs, uuid \in Uuids :
        Respond(in, create_multipart_upload(in, uuid))
StepUploadPart(Inputs) == \E in \in Inputs : Respond(in, upload_part(in))
StepCompleteMultipartUpload(Inputs) ==
    \E in \in Inputs : Respond(in, complete_multipart_upload(in))
StepAbortMultipartUpload(Inputs) ==
    \E in \in Inputs : Respond(in, abort_multipart_upload(in))

---------------------------------------------------------------------------
(* Requests *)

\* Bucket names and bucket strings of requests.
NameAbc == <<"a", "b", "c">>
NameAbd == <<"a", "b", "d">>
Prefixed(addr, name) == <<addr>> \o <<".">> \o name

KeyK == <<"k">>
KeyK2 == <<"k", "2">>

\* Bodies: one chunk, two chunks, a chunk and then an error, no body.
BodyX == Body(<< <<"x">> >>, FALSE)
BodyYZ == Body(<< <<"y">>, <<"z">> >>, FALSE)
BodyTorn == Body(<< <<"y">> >>, TRUE)
Bodies == {BodyX, BodyYZ, BodyTorn, NoBody}

\* User metadata of a PutObject.
NoMetadata == EmptyMap
Metadatas == {NoMetadata, [etag |-> <<"zz">>], [last_modified |-> <<"soon">>]}

\* Part lists of a CompleteMultipartUpload: every list of up to MaxPart
\* entries, each a part number or an entry without one.
RECURSIVE PartListsUpTo(_)
PartListsUpTo(n) ==
    IF n = 0 THEN {<<>>}
    ELSE LET shorter == PartListsUpTo(n - 1) IN
         shorter \cup {Append(s, p) : s \in {t \in shorter : Len(t) = n - 1},
                                      p \in 0..MaxPart}
PartLists == PartListsUpTo(MaxPart)

CreateBucketReq(name, rpc) ==
    [verb |-> "CreateBucket", bucket |-> name, rpc |-> rpc]
HeadBucketReq(bucket, rpc) ==
    [verb |-> "HeadBucket", bucket |-> bucket, rpc |-> rpc]
ListBucketsReq(rpc) == [verb |-> "ListBuckets", rpc |-> rpc]
GetBucketLocationReq(bucket) ==
    [verb |-> "GetBucketLocation", bucket |-> bucket]
PutObjectReq(bucket, key, body, metadata, rpc) ==
    [verb |-> "PutObject", bucket |-> bucket, key |-> key, body |-> body,
     metadata |-> metadata, rpc |-> rpc]
GetObjectReq(bucket, key, cut, rpc) ==
    [verb |-> "GetObject", bucket |-> bucket, key |-> key, cut |-> cut,
     rpc |-> rpc]
HeadObjectReq(bucket, key, rpc) ==
    [verb |-> "HeadObject", bucket |-> bucket, key |-> key, rpc |-> rpc]
CopyObjectReq(src_bucket, src_key, bucket, key, cut, rpc) ==
    [verb |-> "CopyObject", access_point |-> FALSE,
     src_bucket |-> src_bucket, src_key |-> src_key,
     bucket |-> bucket, key |-> key, cut |-> cut, rpc |-> rpc]
CopyFromAccessPointReq(bucket, key) ==
    [verb |-> "CopyObject", access_point |-> TRUE,
     src_bucket |-> <<>>, src_key |-> <<>>,
     bucket |-> bucket, key |-> key, cut |-> FALSE, rpc |-> 0]
DeleteObjectReq(bucket, key, rpc) ==
    [verb |-> "DeleteObject", bucket |-> bucket, key |-> key, rpc |-> rpc]
DeleteObjectsReq(bucket, keys, rpc) ==
    [verb |-> "DeleteObjects", bucket |-> bucket, keys |-> keys, rpc |-> rpc]
ListObjectsReq(verb, bucket, prefix, max_keys, token, rpc) ==
    [verb |-> verb, bucket |-> bucket, prefix |-> prefix,
     delimiter |-> NoValue, max_keys |-> max_keys,
     continuation_token |-> token, rpc |-> rpc]
CreateMultipartUploadReq(bucket, key) ==
    [verb |-> "CreateMultipartUpload", bucket |-> bucket, key |-> key]
UploadPartReq(upload_id, part_number, body) ==
    [verb |-> "UploadPart", upload_id |-> upload_id,
     part_number |-> part_number, body |-> body]
CompleteMultipartUploadReq(bucket, key, upload_id, mpu, rpc) ==
    [verb |-> "CompleteMultipartUpload", bucket |-> bucket, key |-> key,
     upload_id |-> upload_id, multipart_upload |-> mpu, rpc |-> rpc]
AbortMultipartUploadReq(upload_id) ==
    [verb |-> "AbortMultipartUpload", upload_id |-> upload_id]

---------------------------------------------------------------------------
(* The multipart store: uploads of parts, their completion and abort on a  *)
(* gateway with a wallet, and reads of the completed object.               *)

\* A bucket the backend held before the gateway started.
Bucket(address, owner, metadata) ==
    [address |-> address, owner |-> ethers_address_to_fil_address(owner),
     metadata |-> metadata, objects |-> EmptyMap]
BucketAbc == Bucket(BucketAddrs[1], ADDR1,
                    [creation_date |-> Earlier, alias |-> NameAbc])

NoFn == [fn |-> "none", arg |-> <<>>]
NoFnOut == [status |-> "none"]

GatewayStart(w, bs) ==
    /\ wallet = w
    /\ buckets = bs
    /\ staging = EmptyMap
    /\ uploaded = EmptyMap
    /\ written = EmptyMap
    /\ req = [verb |-> "none"]
    /\ resp = [status |-> "none"]
    /\ lookups = <<>>
    /\ tasks = NoTasks
    /\ counted = <<>>
    /\ pipe = NoPipe
    /\ fnIn = NoFn
    /\ fnOut = NoFnOut

InitMultipart ==
    \E bs \in {<<>>, <<BucketAbc>>} : GatewayStart(ADDR1, bs)

AbcOfAddr1 == Prefixed(ADDR1, NameAbc)

MpUploadIds == {"u1", "U1", "bad"}

MpCreateInputs == {CreateMultipartUploadReq(AbcOfAddr1, KeyK)}
MpUuids == {"u1", "u2"}
MpUploadInputs ==
    {UploadPartReq(u, n, b) : u \in MpUploadIds, n \in 1..MaxPart, b \in Bodies}
    \cup {UploadPartReq("u2", 1, BodyX)}
MpCompleteInputs ==
    {CompleteMultipartUploadReq(AbcOfAddr1, KeyK, "u1", CompletedUpload(p), 0) :
        p \in PartLists}
    \cup {CompleteMultipartUploadReq(AbcOfAddr1, KeyK, "u1", CompletedUpload(<<1>>), r) :
            r \in 1..2}
    \cup {CompleteMultipartUploadReq(AbcOfAddr1, KeyK, u, CompletedUpload(p), 0) :
            u \in {"U1", "u2", "bad"}, p \in {<<>>, <<1>>}}
    \cup {CompleteMultipartUploadReq(AbcOfAddr1, KeyK, "u1", NoMultipartUpload, 0),
          CompleteMultipartUploadReq(NameAbc, KeyK, "u1", CompletedUpload(<<1>>), 0)}
MpAbortInputs == {AbortMultipartUploadReq(u) : u \in MpUploadIds \cup {"u2"}}
MpGetInputs ==
    {GetObjectReq(AbcOfAddr1, KeyK, cut, r) : cut \in BOOLEAN, r \in 0..2}

MpCreateMultipartUpload == StepCreateMultipartUpload(MpCreateInputs, MpUuids)
MpUploadPart == StepUploadPart(MpUploadInputs)
MpCompleteMultipartUpload == StepCompleteMultipartUpload(MpCompleteInputs)
MpAbortMultipartUpload == StepAbortMultipartUpload(MpAbortInputs)
MpGetObject == StepGetObject(MpGetInputs)

NextMultipart ==
    \/ MpCreateMultipartUpload
    \/ MpUploadPart
    \/ MpCompleteMultipartUpload
    \/ MpAbortMultipartUpload
    \/ MpGetObject
    \/ ServeNext

SpecMultipart == InitMultipart /\ [][NextMultipart]_vars

---------------------------------------------------------------------------
(* Properties of the multipart store *)

\* The upload a multipart request names, and its part files all written by
\* successful UploadPart calls.
RequestUpload == Uuid_parse_str(req.upload_id)
PartsAllUploaded(upload_id) ==
    PartFilesOf(staging, upload_id) \subseteq DOMAIN uploaded

\* The object the last request addressed: the bucket its lookup resolved
\* and its key.
Target == <<lookups[Len(lookups)].address, req.key>>

\* C2: after AbortMultipartUpload(u) returned success, following successful
\* UploadPart(u, N) calls, the staging root holds no part file
\* .upload-<u>.part-<N>.json of u; and an abort of a well-formed upload id
\* on a gateway with a wallet always succeeds, so a second one does too.
C2_AbortLeavesNoPartFile ==
    req.verb = "AbortMultipartUpload" =>
        /\ (resp.status = "ok" /\ PartsAllUploaded(RequestUpload))
                => PartFilesOf(staging, RequestUpload) = {}
        /\ (wallet # NoWallet /\ RequestUpload # NoUuid) => resp.status = "ok"

\* C3: whenever CompleteMultipartUpload(u) returned success, no part file of
\* u remains in the staging root, whatever parts were uploaded for u before.
C3_CompleteLeavesNoPartFile ==
    (req.verb = "CompleteMultipartUpload" /\ resp.status = "ok"
     /\ PartsAllUploaded(RequestUpload))
        => PartFilesOf(staging, RequestUpload) = {}

\* The quoted hex of md5(md5(P1) ... md5(Pn)) followed by -n.
ExpectedMultipartETag(bodies) ==
    <<"\"">>
    \o hex(Md5(Concat([i \in 1..Len(bodies) |-> Md5(bodies[i])])))
    \o <<"-">> \o to_string(Len(bodies)) \o <<"\"">>

\* C4: multipart round trip.  An object written by a successful
\* CompleteMultipartUpload that listed parts 1..n, uploaded with bodies
\* P1..Pn, is the concatenation P1 ... Pn with the ETag "hex(md5(md5(P1)
\* ... md5(Pn)))-n"; the completion returns that ETag, and GetObject returns
\* it with content_length = the total length and, when the download ran to
\* its end, exactly those bytes.
C4_MultipartRoundTrip ==
    /\ \A e \in DOMAIN written :
        written[e].verb = "CompleteMultipartUpload" =>
            LET o == object_at(buckets, e) IN
            /\ o.data = Concat(written[e].bodies)
            /\ o.size = Len(Concat(written[e].bodies))
            /\ "etag" \in DOMAIN o.metadata
            /\ o.metadata["etag"] = ExpectedMultipartETag(written[e].bodies)
    /\ (req.verb = "CompleteMultipartUpload" /\ resp.status = "ok"
        /\ Target \in DOMAIN written)
            => /\ written[Target].bodies # <<>>
                    => req.multipart_upload.parts =
                        [i \in 1..Len(written[Target].bodies) |-> i]
               /\ resp.out.e_tag = ExpectedMultipartETag(written[Target].bodies)
    /\ (req.verb = "GetObject" /\ resp.status = "ok"
        /\ Target \in DOMAIN written
        /\ written[Target].verb = "CompleteMultipartUpload")
            => /\ resp.out.content_length = Len(Concat(written[Target].bodies))
               /\ resp.out.e_tag = ExpectedMultipartETag(written[Target].bodies)
               /\ resp.out.body_complete
                    => resp.out.body = Concat(written[Target].bodies)

\* A GetObject returned the whole of an object completed from two parts
\* with different bodies.
C4_Witness ==
    /\ req.verb = "GetObject" /\ resp.status = "ok"
    /\ resp.out.body_complete
    /\ Target \in DOMAIN written
    /\ written[Target].verb = "CompleteMultipartUpload"
    /\ Len(written[Target].bodies) = 2
    /\ written[Target].bodies[1] # written[Target].bodies[2]

\* The part numbers of a list are exactly 1, 2, ..., n in the order given.
IsOneToN(parts) == \A i \in 1..Len(parts) : parts[i] = i

\* A CompleteMultipartUpload request that gets as far as its parts list.
ReachesPartsList(in) ==
    /\ in.verb = "CompleteMultipartUpload"
    /\ wallet # NoWallet
    /\ BucketNameWithOwner_from(in.bucket).status = "ok"
    /\ in.multipart_upload.present
    /\ Uuid_parse_str(in.upload_id) # NoUuid

\* C19: CompleteMultipartUpload accepts a parts list only if its part
\* numbers, in the order given, are exactly 1, 2, ..., n; a missing part
\* number, a gap, a repeat or a misordering makes it fail with
\* InvalidRequest, and no object is added.
C19_PartNumbersOneToN ==
    [][(req.verb = "none" /\ ReachesPartsList(req'))
            => /\ resp'.status = "ok" => IsOneToN(req'.multipart_upload.parts)
               /\ ~IsOneToN(req'.multipart_upload.parts)
                    => /\ resp' = Err("InvalidRequest")
                       /\ buckets' = buckets]_vars

---------------------------------------------------------------------------
(* The object store: the object verbs on one bucket of a gateway with a    *)
(* wallet.                                                                 *)

InitObject == GatewayStart(ADDR1, <<BucketAbc>>)

AbdOfAddr1 == Prefixed(ADDR1, NameAbd)
Keys == {KeyK, KeyK2}
KeyLists == {<<>>, <<KeyK>>, <<KeyK, KeyK2>>, <<KeyK2, KeyK>>}

ObPutInputs ==
    {PutObjectReq(AbcOfAddr1, k, b, md, 0) :
        k \in Keys, b \in Bodies, md \in Metadatas}
    \cup {PutObjectReq(AbcOfAddr1, KeyK, BodyX, NoMetadata, r) : r \in 1..2}
    \cup {PutObjectReq(AbdOfAddr1, KeyK, BodyX, NoMetadata, 0)}
ObGetInputs ==
    {GetObjectReq(AbcOfAddr1, k, cut, 0) : k \in Keys, cut \in BOOLEAN}
    \cup {GetObjectReq(AbcOfAddr1, KeyK, FALSE, r) : r \in 1..2}
    \cup {GetObjectReq(AbdOfAddr1, KeyK, FALSE, 0)}
ObHeadInputs ==
    {HeadObjectReq(AbcOfAddr1, k, r) : k \in Keys, r \in 0..2}
    \cup {HeadObjectReq(AbdOfAddr1, KeyK, 0)}
ObCopyInputs ==
    {CopyObjectReq(AbcOfAddr1, s, AbcOfAddr1, d, cut, 0) :
        s \in Keys, d \in Keys, cut \in BOOLEAN}
    \cup {CopyObjectReq(AbcOfAddr1, KeyK, AbcOfAddr1, KeyK2, FALSE, r) :
            r \in 1..4}
    \cup {CopyObjectReq(AbdOfAddr1, KeyK, AbcOfAddr1, KeyK2, FALSE, 0),
          CopyObjectReq(AbcOfAddr1, KeyK, AbdOfAddr1, KeyK2, FALSE, 0),
          CopyObjectReq(AbcOfAddr1, KeyK, NameAbc, KeyK2, FALSE, 0),
          CopyFromAccessPointReq(AbcOfAddr1, KeyK)}
ObDeleteInputs ==
    {DeleteObjectReq(AbcOfAddr1, k, r) : k \in Keys, r \in 0..2}
    \cup {DeleteObjectReq(AbdOfAddr1, KeyK, 0)}
ObDeleteObjectsInputs ==
    {DeleteObjectsReq(AbcOfAddr1, ks, r) : ks \in KeyLists, r \in 0..3}
    \cup {DeleteObjectsReq(AbdOfAddr1, <<KeyK>>, 0)}
ObListInputs(verb) ==
    {ListObjectsReq(verb, AbcOfAddr1, p, mk, t, 0) :
        p \in {NoValue, KeyK, KeyK2}, mk \in {NoMaxKeys, <<1>>, <<-1>>},
        t \in {NoValue, KeyK2}}
    \cup {ListObjectsReq(verb, AbcOfAddr1, NoValue, NoMaxKeys, NoValue, r) :
            r \in 1..2}
    \cup {ListObjectsReq(verb, AbdOfAddr1, NoValue, NoMaxKeys, NoValue, 0)}

ObPutObject == StepPutObject(ObPutInputs)
ObGetObject == StepGetObject(ObGetInputs)
ObHeadObject == StepHeadObject(ObHeadInputs)
ObCopyObject == StepCopyObject(ObCopyInputs)
ObDeleteObject == StepDeleteObject(ObDeleteInputs)
ObDeleteObjects == StepDeleteObjects(ObDeleteObjectsInputs)
ObListObjects == StepListObjects(ObListInputs("ListObjects"))
ObListObjectsV2 == StepListObjectsV2(ObListInputs("ListObjectsV2"))

NextObject ==
    \/ ObPutObject
    \/ ObGetObject
    \/ ObHeadObject
    \/ ObCopyObject
    \/ ObDeleteObject
    \/ ObDeleteObjects
    \/ ObListObjects
    \/ ObListObjectsV2
    \/ ServeNext

SpecObject == InitObject /\ [][NextObject]_vars

\* The quoted md5-hex of bytes.
ExpectedETag(bytes) == <<"\"">> \o hex(Md5(bytes)) \o <<"\"">>

\* C5: single-object round trip.  The response of a successful
\* PutObject(k, bytes) carries the ETag "md5-hex of bytes", and while no
\* other write to k intervenes a GetObject(k) without Range returns
\* content_length = len(bytes), that same ETag and, when the download ran
\* to its end, exactly bytes.
C5_SingleObjectRoundTrip ==
    /\ (req.verb = "PutObject" /\ resp.status = "ok")
            => resp.out.e_tag = ExpectedETag(written[Target].bodies[1])
    /\ (req.verb = "GetObject" /\ resp.status \in {"ok", "panic"}
        /\ Target \in DOMAIN written
        /\ written[Target].verb = "PutObject")
            => /\ resp.status = "ok"
               /\ resp.out.content_length = Len(written[Target].bodies[1])
               /\ resp.out.e_tag = ExpectedETag(written[Target].bodies[1])
               /\ resp.out.body_complete
                    => resp.out.body = written[Target].bodies[1]

\* The source and the destination of a CopyObject request that resolved
\* both buckets: the bucket address and the key.
CopySource(in, lk) == <<lk[1].address, in.src_key>>
CopyDestination(in, lk) == <<lk[2].address, in.key>>

\* C17: after a successful CopyObject of an existing source object, the
\* destination holds the bytes of the source and the source's etag
\* metadata verbatim, and the source object is unchanged, whatever the
\* outcome of the background download that feeds the copy.
C17_CopyEqualsSource ==
    [][(req.verb = "none" /\ req'.verb = "CopyObject" /\ resp'.status = "ok"
        /\ object_at(buckets, CopySource(req', lookups')) # NoObject)
            => LET src == CopySource(req', lookups')
                   dst == CopyDestination(req', lookups')
                   source == object_at(buckets, src)
               IN  /\ object_at(buckets', dst).data = source.data
                   /\ object_at(buckets', dst).metadata["etag"]
                        = source.metadata["etag"]
                   /\ object_at(buckets', src).data = source.data
                   /\ src # dst => object_at(buckets', src) = source]_vars

\* The keys of a DeleteObjects request whose delete was committed: those
\* before the key whose delete fails (backend call i + 1 is the delete of
\* key i), or all of them.
DeletedBefore(in) ==
    LET n == Len(in.keys)
        done == IF in.rpc - 1 \in 1..n THEN in.rpc - 2 ELSE n
    IN  {in.keys[j] : j \in 1..done}

\* C18: DeleteObjects deletes key by key in request order; when the delete
\* of the i-th key fails, the keys before it are deleted, the i-th and the
\* later keys are left as they were, and the request returns an error;
\* when none fails every key is deleted and the request succeeds.
C18_DeleteObjectsInOrder ==
    [][(req.verb = "none" /\ req'.verb = "DeleteObjects"
        /\ Len(lookups') = 1 /\ lookups'[1].address # NoBucket)
            => LET address == lookups'[1].address
                   before == ObjectsOf(address)
                   after == buckets'[BucketIndex(address)].objects
                   gone == DeletedBefore(req')
               IN  /\ after = [k \in DOMAIN before \ gone |-> before[k]]
                   /\ Len(buckets') = Len(buckets)
                   /\ \A i \in 1..Len(buckets) :
                        buckets[i].address # address => buckets'[i] = buckets[i]
                   /\ (req'.rpc - 1 \in 1..Len(req'.keys))
                        <=> resp'.status = "err"
                   /\ (req'.rpc - 1 \notin 1..Len(req'.keys))
                        <=> resp'.status = "ok"]_vars

\* The delete of the second of two keys failed: the request failed, the
\* first key is gone and the second is still stored.
C18_Witness ==
    /\ req.verb = "DeleteObjects"
    /\ req.keys = <<KeyK, KeyK2>>
    /\ req.rpc = 3
    /\ resp.status = "err"
    /\ Len(lookups) = 1 /\ lookups[1].address # NoBucket
    /\ KeyK \notin DOMAIN ObjectsOf(lookups[1].address)
    /\ KeyK2 \in DOMAIN ObjectsOf(lookups[1].address)
    /\ <<lookups[1].address, KeyK2>> \in DOMAIN written

\* A GetObject or HeadObject request that resolved its bucket and whose
\* backend calls did not fail.
ReadsKey(in, lk) ==
    /\ in.verb \in {"GetObject", "HeadObject"}
    /\ in.rpc = 0
    /\ Len(lk) = 1 /\ lk[1].address # NoBucket

\* C21: GetObject and HeadObject for key k in an existing bucket fail with
\* NoSuchKey whenever no object with key exactly k exists, also when other
\* stored keys have k as a proper prefix; when they succeed, the size, etag
\* and last_modified they report are those of the object whose key is
\* exactly k.
C21_ExactKeyOrNoSuchKey ==
    ReadsKey(req, lookups)
        => LET objs == ObjectsOf(lookups[1].address)
               recall == recall_get_object(objs, req.key, FALSE)
           IN  /\ req.key \notin DOMAIN objs
                    => /\ resp = Err("NoSuchKey")
                       /\ recall = Err("NoSuchKey")
               /\ recall.status = "ok" => recall.object = objs[req.key]
               /\ resp.status = "ok"
                    => /\ req.key \in DOMAIN objs
                       /\ resp.out.content_length = objs[req.key].size
                       /\ resp.out.last_modified
                            = metadata_get(objs[req.key].metadata, "last_modified")
                       /\ req.verb = "GetObject"
                            => resp.out.e_tag
                                = metadata_get(objs[req.key].metadata, "etag")

---------------------------------------------------------------------------
(* Listings: puts and deletes under three keys of one bucket, and the two  *)
(* listing verbs over every prefix, key limit, delimiter and token.        *)

InitList == GatewayStart(ADDR1, <<BucketAbc>>)

Key2 == <<"2">>
ListKeys == {Key2, KeyK, KeyK2}

\* The largest key limit the listings of a bucket of ListKeys can reach.
MaxKeysGiven == 2

\* max_keys of a request: absent, negative, within and beyond the number of
\* stored keys.
ListMaxKeys == {NoMaxKeys, <<-1>>} \cup {<<n>> : n \in 1..MaxKeysGiven}

LsPutInputs ==
    {PutObjectReq(AbcOfAddr1, k, BodyX, md, 0) :
        k \in ListKeys, md \in {NoMetadata, [last_modified |-> <<"soon">>]}}
LsDeleteInputs == {DeleteObjectReq(AbcOfAddr1, k, 0) : k \in ListKeys}
LsListInputs(verb) ==
    {[ListObjectsReq(verb, AbcOfAddr1, p, mk, t, 0) EXCEPT !.delimiter = d] :
        p \in {NoValue, KeyK, KeyK2}, mk \in ListMaxKeys,
        t \in {NoValue, KeyK, KeyK2}, d \in {NoValue, <<"/">>}}
    \cup {ListObjectsReq(verb, AbcOfAddr1, NoValue, NoMaxKeys, NoValue, r) :
            r \in 1..2}
    \cup {ListObjectsReq(verb, AbdOfAddr1, NoValue, NoMaxKeys, NoValue, 0)}

LsPutObject == StepPutObject(LsPutInputs)
LsDeleteObject == StepDeleteObject(LsDeleteInputs)
LsListObjects == StepListObjects(LsListInputs("ListObjects"))
LsListObjectsV2 == StepListObjectsV2(LsListInputs("ListObjectsV2"))

\* max_keys is an i32: absent, its ends, and values around 0 and 1000.
LimitArgs ==
    {NoMaxKeys} \cup
    {<<n>> : n \in {-2147483647 - 1, -1, 0, 1, 2, 999, 1000, 1001, 2147483647}}

\* The limit list_objects_v2 computes for a max_keys.
ApplyListLimit ==
    /\ fnIn.fn = "none"
    /\ \E max_keys \in LimitArgs :
        /\ fnIn' = [fn |-> "list_limit", arg |-> max_keys]
        /\ fnOut' = list_limit(max_keys)
    /\ UNCHANGED <<wallet, buckets, staging, uploaded, written, req, resp, lookups,
                   tasks, counted, pipe>>

NextList ==
    \/ LsPutObject
    \/ LsDeleteObject
    \/ LsListObjects
    \/ LsListObjectsV2
    \/ ApplyListLimit
    \/ ServeNext

SpecList == InitList /\ [][NextList]_vars

\* A listing request that resolved its bucket and whose backend calls did
\* not fail.
Lists(in, lk, verb) ==
    /\ in.verb = verb
    /\ in.rpc = 0
    /\ Len(lk) = 1 /\ lk[1].address # NoBucket

\* The stored keys of the listed bucket that start with the prefix of the
\* request.
KeysWithPrefix(in, lk) ==
    {k \in DOMAIN ObjectsOf(lk[1].address) :
        starts_with(k, IF in.prefix = NoValue THEN <<>> ELSE in.prefix)}

\* The keys of the contents of a listing.
ContentKeys(out) == {out.contents[i].key : i \in 1..Len(out.contents)}

\* C22: ListObjectsV2 on an existing bucket with prefix p returns in
\* contents every stored key that starts with p, up to the key limit, and
\* no key that does not start with p, and key_count is the number of
\* entries in contents.
C22_ListReturnsKeysWithPrefix ==
    Lists(req, lookups, "ListObjectsV2")
        => LET matching == KeysWithPrefix(req, lookups)
               limit == list_limit(req.max_keys) IN
           /\ resp.status = "ok"
           /\ ContentKeys(resp.out) \subseteq matching
           /\ Cardinality(ContentKeys(resp.out)) = Len(resp.out.contents)
           /\ Cardinality(matching) <= limit
                => ContentKeys(resp.out) = matching
           /\ Cardinality(matching) > limit
                => Len(resp.out.contents) = limit
           /\ resp.out.key_count = Len(resp.out.contents)

---------------------------------------------------------------------------
(* The gateway: every verb, with and without a wallet, over backends that  *)
(* held buckets before the gateway started.                                *)

\* An object the backend held before the gateway started.
ObjectX ==
    [size |-> 1, data |-> <<"x">>,
     metadata |-> [last_modified |-> Earlier, etag |-> single_e_tag(hex(Md5(<<"x">>)))]]

\* Bucket lists at the start: none; one aliased bucket of the wallet's
\* address holding an object; a bucket without alias followed by two
\* buckets of the same owner with the same alias; a bucket of another owner.
InitialBuckets ==
    {<<>>,
     <<[BucketAbc EXCEPT !.objects = MapPut(EmptyMap, KeyK, ObjectX)]>>,
     <<Bucket(BucketAddrs[1], ADDR1, [creation_date |-> Earlier]),
       Bucket(BucketAddrs[2], ADDR1, [creation_date |-> Earlier, alias |-> NameAbc]),
       Bucket(BucketAddrs[3], ADDR1, [creation_date |-> Earlier, alias |-> NameAbc])>>,
     <<Bucket(BucketAddrs[1], ADDR2, [creation_date |-> Earlier, alias |-> NameAbc])>>}

Init == \E w \in {NoWallet, ADDR1}, bs \in InitialBuckets : GatewayStart(w, bs)

\* Bucket strings of requests: of the wallet's address, of another owner,
\* naming no bucket, and without the address prefix.
BucketStrings == {AbcOfAddr1, Prefixed(ADDR2, NameAbc), AbdOfAddr1, NameAbc}

CreateBucketInputs ==
    {CreateBucketReq(n, r) : n \in {NameAbc, NameAbd, <<"A">>}, r \in 0..2}
HeadBucketInputs == {HeadBucketReq(b, r) : b \in BucketStrings, r \in 0..1}
ListBucketsInputs == {ListBucketsReq(r) : r \in 0..1}
GetBucketLocationInputs == {GetBucketLocationReq(AbcOfAddr1)}
PutObjectInputs ==
    {PutObjectReq(b, KeyK, body, NoMetadata, r) :
        b \in BucketStrings, body \in {BodyX, NoBody}, r \in 0..2}
GetObjectInputs == {GetObjectReq(b, KeyK, FALSE, r) : b \in BucketStrings, r \in 0..2}
HeadObjectInputs == {HeadObjectReq(b, KeyK, r) : b \in BucketStrings, r \in 0..2}
CopyObjectInputs ==
    {CopyObjectReq(s, KeyK, d, KeyK, FALSE, r) :
        s \in BucketStrings, d \in {AbcOfAddr1, AbdOfAddr1}, r \in 0..4}
    \cup {CopyFromAccessPointReq(AbcOfAddr1, KeyK)}
DeleteObjectInputs == {DeleteObjectReq(b, KeyK, r) : b \in BucketStrings, r \in 0..2}
DeleteObjectsInputs ==
    {DeleteObjectsReq(b, <<KeyK>>, r) : b \in BucketStrings, r \in 0..2}
    \cup {DeleteObjectsReq(AbcOfAddr1, <<KeyK, KeyK>>, 3)}
ListObjectsInputs(verb) ==
    {ListObjectsReq(verb, b, NoValue, NoMaxKeys, NoValue, r) :
        b \in BucketStrings, r \in 0..2}
CreateMultipartUploadInputs ==
    {CreateMultipartUploadReq(b, KeyK) : b \in {AbcOfAddr1, AbdOfAddr1}}
UploadPartInputs ==
    {UploadPartReq(u, 1, body) : u \in {"u1", "bad"}, body \in {BodyX, NoBody}}
CompleteMultipartUploadInputs ==
    {CompleteMultipartUploadReq(b, KeyK, "u1", CompletedUpload(<<1>>), r) :
        b \in BucketStrings, r \in 0..2}
    \cup {CompleteMultipartUploadReq(AbcOfAddr1, KeyK, "u1", NoMultipartUpload, 0)}
AbortMultipartUploadInputs == {AbortMultipartUploadReq(u) : u \in {"u1", "bad"}}

CreateBucket == StepCreateBucket(CreateBucketInputs)
HeadBucket == StepHeadBucket(HeadBucketInputs)
ListBuckets == StepListBuckets(ListBucketsInputs)
GetBucketLocation == StepGetBucketLocation(GetBucketLocationInputs)
PutObject == StepPutObject(PutObjectInputs)
GetObject == StepGetObject(GetObjectInputs)
HeadObject == StepHeadObject(HeadObjectInputs)
CopyObject == StepCopyObject(CopyObjectInputs)
DeleteObject == StepDeleteObject(DeleteObjectInputs)
DeleteObjects == StepDeleteObjects(DeleteObjectsInputs)
ListObjects == StepListObjects(ListObjectsInputs("ListObjects"))
ListObjectsV2 == StepListObjectsV2(ListObjectsInputs("ListObjectsV2"))
CreateMultipartUpload == StepCreateMultipartUpload(CreateMultipartUploadInputs, {"u1"})
UploadPart == StepUploadPart(UploadPartInputs)
CompleteMultipartUpload == StepCompleteMultipartUpload(CompleteMultipartUploadInputs)
AbortMultipartUpload == StepAbortMultipartUpload(AbortMultipartUploadInputs)

Next ==
    \/ CreateBucket
    \/ HeadBucket
    \/ ListBuckets
    \/ GetBucketLocation
    \/ PutObject
    \/ GetObject
    \/ HeadObject
    \/ CopyObject
    \/ DeleteObject
    \/ DeleteObjects
    \/ ListObjects
    \/ ListObjectsV2
    \/ CreateMultipartUpload
    \/ UploadPart
    \/ CompleteMultipartUpload
    \/ AbortMultipartUpload
    \/ ServeNext

Spec == Init /\ [][Next]_vars

---------------------------------------------------------------------------
(* Properties of the gateway *)

MutatingVerbs ==
    {"CreateBucket", "PutObject", "CopyObject", "DeleteObject",
     "DeleteObjects", "CreateMultipartUpload", "UploadPart",
     "CompleteMultipartUpload", "AbortMultipartUpload"}

\* C1: on a gateway constructed without a wallet every mutating verb
\* returns the error NotImplemented, for every input.
C1_ReadOnlyNotImplemented ==
    (wallet = NoWallet /\ req.verb \in MutatingVerbs)
        => (resp.status = "err" /\ resp.code = "NotImplemented")

\* The entries of the owner's committed bucket list whose alias metadata
\* equals the name, as positions in the backend's list of buckets.
AliasMatches(owner, name) ==
    {j \in 1..Len(buckets) :
        /\ buckets[j].owner = owner
        /\ "alias" \in DOMAIN buckets[j].metadata
        /\ buckets[j].metadata["alias"] = name}

WalletOwner == ethers_address_to_fil_address(wallet)

\* C6: a CreateBucket(name) on a gateway with a wallet, taken when the
\* wallet owner's committed bucket list holds a bucket whose alias metadata
\* equals name, creates no bucket, and fails with BucketAlreadyExists
\* whenever the list call is answered.
C6_CreateExistingFails ==
    [][(req'.verb = "CreateBucket" /\ req.verb = "none" /\ wallet # NoWallet
        /\ AliasMatches(WalletOwner, req'.bucket) # {})
            => /\ buckets' = buckets
               /\ resp'.status = "err"
               /\ req'.rpc # 1 => resp'.code = "BucketAlreadyExists"]_vars

\* A second CreateBucket with the name of a bucket the gateway created
\* has failed with BucketAlreadyExists.
C6_Witness ==
    /\ req.verb = "CreateBucket"
    /\ resp.status = "err" /\ resp.code = "BucketAlreadyExists"
    /\ \E j \in AliasMatches(WalletOwner, req.bucket) :
            buckets[j].metadata["creation_date"] = Now

\* The verbs whose handler resolves the bucket the request names.
ResolvingVerbs ==
    {"HeadBucket", "GetObject", "HeadObject", "ListObjects", "ListObjectsV2",
     "PutObject", "CopyObject", "DeleteObject", "DeleteObjects",
     "CompleteMultipartUpload"}
ReadVerbs == {"HeadBucket", "GetObject", "HeadObject", "ListObjects", "ListObjectsV2"}

\* The bucket strings a request names: the source first for CopyObject.
NamedBuckets(r) ==
    IF r.verb = "CopyObject" THEN <<r.src_bucket, r.bucket>> ELSE <<r.bucket>>

---------------------------------------------------------------------------
(* Concurrent multipart requests.  Every connection is served by its own   *)
(* task; a handler runs from one await to the next, and between two awaits *)
(* the handlers of the other connections may run.                          *)

Conns == {"c1", "c2"}

\* An open file: the path it was opened at, the position of the next
\* write, and, once the path was removed under it, the content the file
\* has kept since.
NoHandle == [path |-> <<>>, offset |-> 0, unlinked |-> FALSE, data |-> <<>>]
Handle(path) == [path |-> path, offset |-> 0, unlinked |-> FALSE, data |-> <<>>]

\* A connection that handles no request.
IdleTask ==
    [pc |-> "idle", in |-> [verb |-> "none"], upload_id |-> NoUuid,
     handle |-> NoHandle, chunks |-> <<>>, md5_hash |-> Md5_new,
     parts |-> <<>>, cnt |-> 0, file |-> <<>>, e_tag_hash |-> Md5_new,
     entries |-> {}, resp |-> [status |-> "none"]]

\* The handler has returned r.
Returned(t, r) == [t EXCEPT !.pc = "done", !.resp = r, !.handle = NoHandle]

\* The task of a connection after a step: a handler that has returned
\* leaves nothing behind.
Settle(t) == IF t.pc = "done" THEN IdleTask ELSE t

\* The bytes of an open file.
HandleData(h) == IF h.unlinked THEN h.data ELSE staging[h.path]

\* The zero byte a hole in a file reads as.
Zero == "\\0"

\* write_all(chunk) at a position of a file: the bytes there are
\* overwritten, and a position beyond the end leaves a hole.
WriteAt(bytes, offset, chunk) ==
    LET padded == IF Len(bytes) < offset
                  THEN bytes \o [i \in 1..(offset - Len(bytes)) |-> Zero]
                  ELSE bytes
    IN  SubSeq(padded, 1, offset) \o chunk
            \o SubSeq(padded, offset + Len(chunk) + 1, Len(padded))

\* fs::remove_file(path), as the tasks that hold the file open see it: the
\* file lives on with its content, without a name.
Unlink(ts, path) ==
    [c \in Conns |->
        IF ts[c].handle.path = path /\ ~ts[c].handle.unlinked
           /\ ts[c].handle # NoHandle
        THEN [ts[c] EXCEPT !.handle.unlinked = TRUE,
                           !.handle.data = staging[path]]
        ELSE ts[c]]

\* upload_part up to fs::File::create
begin_upload_part(in) ==
    IF is_read_only THEN Returned(IdleTask, Err("NotImplemented"))
    ELSE IF ~in.body.present THEN Returned(IdleTask, Err("IncompleteBody"))
    ELSE LET upload_id == Uuid_parse_str(in.upload_id) IN
    IF upload_id = NoUuid THEN Returned(IdleTask, Err("InvalidRequest"))
    ELSE [IdleTask EXCEPT !.pc = "create", !.upload_id = upload_id,
                          !.chunks = in.body.chunks]

\* complete_multipart_upload up to the loop over the parts
begin_complete_multipart_upload(in) ==
    IF is_read_only THEN Returned(IdleTask, Err("NotImplemented"))
    ELSE LET bucket == BucketNameWithOwner_from(in.bucket) IN
    IF bucket.status # "ok" THEN Returned(IdleTask, bucket)
    ELSE IF ~in.multipart_upload.present THEN Returned(IdleTask, Err("InvalidPart"))
    ELSE LET upload_id == Uuid_parse_str(in.upload_id) IN
    IF upload_id = NoUuid THEN Returned(IdleTask, Err("InvalidRequest"))
    ELSE [IdleTask EXCEPT !.pc = "part", !.upload_id = upload_id,
                          !.parts = in.multipart_upload.parts]

\* abort_multipart_upload up to fs::read_dir
begin_abort_multipart_upload(in) ==
    IF is_read_only THEN Returned(IdleTask, Err("NotImplemented"))
    ELSE LET upload_id == Uuid_parse_str(in.upload_id) IN
    IF upload_id = NoUuid THEN Returned(IdleTask, Err("InvalidRequest"))
    ELSE [IdleTask EXCEPT !.pc = "read_dir", !.upload_id = upload_id]

begin(in) ==
    [(IF in.verb = "UploadPart" THEN begin_upload_part(in)
      ELSE IF in.verb = "CompleteMultipartUpload"
      THEN begin_complete_multipart_upload(in)
      ELSE begin_abort_multipart_upload(in)) EXCEPT !.in = in]

\* The step of connection c that took its task from t to nt, the tasks of
\* the other connections being those of ts.
Ran(c, t, nt, ts) ==
    /\ tasks' = [ts EXCEPT ![c] = Settle(nt)]
    /\ req' = [verb |-> nt.in.verb, conn |-> c,
               upload_id |-> nt.upload_id, pc |-> t.pc]
    /\ resp' = nt.resp
    /\ UNCHANGED <<wallet, uploaded, written, lookups, fnIn, fnOut, counted,
                 pipe>>

\* A connection takes a request and its handler runs to its first await.
Accept(c, Inputs) ==
    /\ tasks[c].pc = "idle"
    /\ \E in \in Inputs : Ran(c, tasks[c], begin(in), tasks)
    /\ UNCHANGED <<buckets, staging>>

\* upload_part: fs::File::create(file_path) creates the file or empties it.
UploadPartCreate(c) ==
    LET t == tasks[c]
        file_path == get_upload_part_path(t.upload_id, t.in.part_number) IN
    /\ t.pc = "create"
    /\ staging' = MapPut(staging, file_path, <<>>)
    /\ Ran(c, t, [t EXCEPT !.pc = "copy", !.handle = Handle(file_path)], tasks)
    /\ UNCHANGED buckets

\* copy_bytes: the next chunk of the body is hashed and written.
UploadPartWrite(c) ==
    LET t == tasks[c]
        h == t.handle
        chunk == Head(t.chunks)
        after == WriteAt(HandleData(h), h.offset, chunk) IN
    /\ t.pc = "copy" /\ t.chunks # <<>>
    /\ staging' = IF h.unlinked THEN staging
                  ELSE [staging EXCEPT ![h.path] = after]
    /\ Ran(c, t, [t EXCEPT
            !.chunks = Tail(t.chunks),
            !.md5_hash = Md5_update(t.md5_hash, chunk),
            !.handle.offset = h.offset + Len(chunk),
            !.handle.data = IF h.unlinked THEN after ELSE h.data], tasks)
    /\ UNCHANGED buckets

\* copy_bytes: the body ends, with an error or not; upload_part returns.
UploadPartReturn(c) ==
    LET t == tasks[c] IN
    /\ t.pc = "copy" /\ t.chunks = <<>>
    /\ Ran(c, t, Returned(t, IF t.in.body.err THEN Err("InternalError")
                              ELSE Ok([e_tag |->
                                single_e_tag(hex(Md5_finalize(t.md5_hash)))])),
           tasks)
    /\ UNCHANGED <<buckets, staging>>

\* complete_multipart_upload: the next listed part is checked and its file
\* opened.
CompleteOpenPart(c) ==
    LET t == tasks[c]
        part_number == Head(t.parts)
        cnt == t.cnt + 1
        part_path == get_upload_part_path(t.upload_id, part_number) IN
    /\ t.pc = "part" /\ t.parts # <<>>
    /\ Ran(c, t,
            IF part_number = NoPartNumber \/ part_number # cnt
            THEN Returned(t, Err("InvalidRequest"))
            ELSE IF part_path \notin DOMAIN staging
            THEN Returned(t, Err("InternalError"))
            ELSE [t EXCEPT !.pc = "copy_part", !.cnt = cnt,
                           !.handle = Handle(part_path)],
            tasks)
    /\ UNCHANGED <<buckets, staging>>

\* complete_multipart_upload: the part file is copied through the
\* HashReader into the temp file.
CompleteCopyPart(c) ==
    LET t == tasks[c]
        r == hash_reader_copy(HandleData(t.handle), <<>>, <<>>, Md5_new) IN
    /\ t.pc = "copy_part"
    /\ Ran(c, t, [t EXCEPT !.pc = "remove",
                           !.file = t.file \o r.copied,
                           !.e_tag_hash = Md5_update(t.e_tag_hash, r.digest)],
           tasks)
    /\ UNCHANGED <<buckets, staging>>

\* complete_multipart_upload where a part file that is already gone is no
\* error
remove_part_if_present(c) ==
    LET t == tasks[c]
        part_path == t.handle.path IN
    /\ t.pc = "remove"
    /\ staging' = MapDel(staging, part_path)
    /\ Ran(c, t, [t EXCEPT !.pc = "part", !.parts = Tail(t.parts),
                           !.handle = NoHandle],
           IF part_path \in DOMAIN staging THEN Unlink(tasks, part_path)
           ELSE tasks)
    /\ UNCHANGED buckets

\* complete_multipart_upload: fs::remove_file(part_path)
CompleteRemovePart(c) ==
    LET t == tasks[c]
        part_path == t.handle.path IN
    /\ t.pc = "remove"
    /\ IF part_path \notin DOMAIN staging
       THEN /\ Ran(c, t, Returned(t, Err("InternalError")), tasks)
            /\ UNCHANGED staging
       ELSE /\ staging' = MapDel(staging, part_path)
            /\ Ran(c, t, [t EXCEPT !.pc = "part", !.parts = Tail(t.parts),
                                   !.handle = NoHandle],
                   Unlink(tasks, part_path))
    /\ UNCHANGED buckets

\* complete_multipart_upload after the loop: the bucket is resolved and
\* the temp file added under the key.
CompleteAdd(c) ==
    LET t == tasks[c]
        bucket == BucketNameWithOwner_from(t.in.bucket)
        e_tag == multipart_e_tag(hex(Md5_finalize(t.e_tag_hash)), t.cnt)
        r == get_bucket_address_by_alias(bucket, FALSE) IN
    /\ t.pc = "part" /\ t.parts = <<>>
    /\ IF r.address = NoBucket
       THEN /\ Ran(c, t, Returned(t, Err("NoSuchBucket")), tasks)
            /\ UNCHANGED buckets
       ELSE /\ buckets' = add_object(buckets, r.address, t.in.key, t.file,
                                     [last_modified |-> Now, etag |-> e_tag])
            /\ Ran(c, t, Returned(t, Ok([e_tag |-> e_tag, bucket |-> bucket.name,
                                        key |-> t.in.key])), tasks)
    /\ UNCHANGED staging

\* abort_multipart_upload: fs::read_dir(root)
AbortReadDir(c) ==
    LET t == tasks[c] IN
    /\ t.pc = "read_dir"
    /\ Ran(c, t, [t EXCEPT !.pc = "entry", !.entries = DOMAIN staging], tasks)
    /\ UNCHANGED <<buckets, staging>>

\* abort_multipart_upload: the next directory entry, removed if its name
\* starts with the prefix.
AbortEntry(c) ==
    LET t == tasks[c] IN
    /\ t.pc = "entry"
    /\ \E name \in t.entries :
        IF ~starts_with(name, abort_prefix(t.upload_id))
        THEN /\ Ran(c, t, [t EXCEPT !.entries = t.entries \ {name}], tasks)
             /\ UNCHANGED staging
        ELSE IF name \notin DOMAIN staging
        THEN /\ Ran(c, t, Returned(t, Err("InternalError")), tasks)
             /\ UNCHANGED staging
        ELSE /\ staging' = MapDel(staging, name)
             /\ Ran(c, t, [t EXCEPT !.entries = t.entries \ {name}],
                    Unlink(tasks, name))
    /\ UNCHANGED buckets

\* abort_multipart_upload: the directory is exhausted.
AbortReturn(c) ==
    LET t == tasks[c] IN
    /\ t.pc = "entry" /\ t.entries = {}
    /\ Ran(c, t, Returned(t, Ok([done |-> TRUE])), tasks)
    /\ UNCHANGED <<buckets, staging>>

\* The requests of the connections: parts 1 and 2 of two uploads.
ConcUploads == {"u1", "u2"}
ConcInputs ==
    {UploadPartReq(u, 1, BodyX) : u \in ConcUploads}
    \cup {UploadPartReq("u1", 2, BodyYZ), UploadPartReq("bad", 1, BodyX),
          UploadPartReq("u1", 1, NoBody)}
    \cup {CompleteMultipartUploadReq(AbcOfAddr1, KeyK, u, CompletedUpload(p), 0) :
            u \in ConcUploads, p \in {<<1>>, <<1, 2>>}}
    \cup {CompleteMultipartUploadReq(AbdOfAddr1, KeyK, "u1", CompletedUpload(<<>>), 0),
          CompleteMultipartUploadReq(AbcOfAddr1, KeyK, "u1", NoMultipartUpload, 0)}
    \cup {AbortMultipartUploadReq(u) : u \in ConcUploads \cup {"bad"}}

InitConcurrent ==
    /\ wallet = ADDR1
    /\ buckets = <<BucketAbc>>
    /\ staging = EmptyMap
    /\ uploaded = EmptyMap
    /\ written = EmptyMap
    /\ req = [verb |-> "none"]
    /\ resp = [status |-> "none"]
    /\ lookups = <<>>
    /\ fnIn = NoFn
    /\ fnOut = NoFnOut
    /\ tasks = [c \in Conns |-> IdleTask]
    /\ counted = <<>>
    /\ pipe = NoPipe

NextConcurrent ==
    \E c \in Conns :
        \/ Accept(c, ConcInputs)
        \/ UploadPartCreate(c)
        \/ UploadPartWrite(c)
        \/ UploadPartReturn(c)
        \/ CompleteOpenPart(c)
        \/ CompleteCopyPart(c)
        \/ CompleteRemovePart(c)
        \/ CompleteAdd(c)
        \/ AbortReadDir(c)
        \/ AbortEntry(c)
        \/ AbortReturn(c)

SpecConcurrent == InitConcurrent /\ [][NextConcurrent]_vars

\* The part files of an upload, by name.
OwnedBy(path, upload_id) ==
    starts_with(path, <<".upload", "-", upload_id, ".part-">>)

\* get_upload_part_path is injective in (upload_id, part_number).
PartPathInjective ==
    \A u \in ConcUploads, v \in ConcUploads :
        \A n \in 1..(MaxPart + 10), m \in 1..(MaxPart + 10) :
            get_upload_part_path(u, n) = get_upload_part_path(v, m)
                => (u = v /\ n = m)

\* C20: multipart uploads are isolated by upload id.  The part path is
\* injective in (upload_id, part_number), and no step of an UploadPart,
\* CompleteMultipartUpload or AbortMultipartUpload for upload u creates,
\* modifies or deletes a part file of another upload, under any
\* interleaving of the steps of concurrent requests.
C20_UploadsIsolated ==
    [][/\ PartPathInjective
       /\ \A p \in DOMAIN staging \cup DOMAIN staging' :
            ~OwnedBy(p, req'.upload_id)
                => /\ p \in DOMAIN staging /\ p \in DOMAIN staging'
                   /\ staging'[p] = staging[p]]_vars

\* A completion of one upload removed its part file while a request for
\* another upload was between two of its steps and that upload's part
\* file was in the staging directory.
C20_Witness ==
    /\ req.verb = "CompleteMultipartUpload" /\ req.pc = "remove"
    /\ PartFilesOf(staging, req.upload_id) = {}
    /\ \E c \in Conns :
        /\ c # req.conn
        /\ tasks[c].pc # "idle"
        /\ tasks[c].upload_id \notin {req.upload_id, NoUuid}
        /\ PartFilesOf(staging, tasks[c].upload_id) # {}


\* The backend buckets of an owner, as positions in the backend's list.
BucketsOf(bs, owner) == {j \in 1..Len(bs) : bs[j].owner = owner}

\* The name ListBuckets is to give a bucket: its alias metadata, or its
\* address string when it has none.
ListedName(b) ==
    IF "alias" \in DOMAIN b.metadata THEN b.metadata["alias"] ELSE <<b.address>>

\* The entries are one per bucket of the owner, each with the bucket's name.
OneEntryPerBucket(entries, bs, owner) ==
    \E f \in [1..Len(entries) -> BucketsOf(bs, owner)] :
        /\ \A j \in BucketsOf(bs, owner) : \E i \in 1..Len(entries) : f[i] = j
        /\ \A i \in 1..Len(entries), k \in 1..Len(entries) : f[i] = f[k] => i = k
        /\ \A i \in 1..Len(entries) : entries[i].name = ListedName(bs[f[i]])

\* C23: a CreateBucket(name) that succeeded has committed a bucket of the
\* wallet's owner with the alias name, and a ListBuckets by the wallet
\* returns exactly one entry per backend bucket of the wallet's owner, named
\* by the bucket's alias metadata or, without an alias, by its address
\* string; so a created bucket is listed under its name from then on.
C23_ListBucketsOnePerBucket ==
    [][/\ (req.verb = "none" /\ req'.verb = "CreateBucket" /\ resp'.status = "ok")
            => \E j \in BucketsOf(buckets', WalletOwner) :
                    /\ j \notin BucketsOf(buckets, WalletOwner)
                    /\ ListedName(buckets'[j]) = req'.bucket
       /\ (req.verb = "none" /\ req'.verb = "ListBuckets" /\ req'.rpc = 0
           /\ wallet # NoWallet)
            => /\ resp'.status = "ok"
               /\ OneEntryPerBucket(resp'.out.buckets, buckets', WalletOwner)
       /\ \A j \in 1..Len(buckets) :
            Len(buckets') >= j /\ buckets'[j].owner = buckets[j].owner
            /\ buckets'[j].metadata = buckets[j].metadata
            /\ buckets'[j].address = buckets[j].address]_vars

\* A ListBuckets returned an entry named abd, a bucket that a CreateBucket
\* of this gateway made, next to an entry named by an address.
C23_Witness ==
    /\ req.verb = "ListBuckets" /\ resp.status = "ok"
    /\ \E i \in 1..Len(resp.out.buckets) : resp.out.buckets[i].name = NameAbd
    /\ \E i \in 1..Len(resp.out.buckets) :
            resp.out.buckets[i].name = <<BucketAddrs[1]>>


\* The label of the call counter for a verb.
VerbLabel ==
    [AbortMultipartUpload |-> "abort_multipart_upload",
     CompleteMultipartUpload |-> "complete_multipart_upload",
     CopyObject |-> "copy_object", CreateBucket |-> "create_bucket",
     CreateMultipartUpload |-> "create_multipart_upload",
     DeleteObject |-> "delete_object", DeleteObjects |-> "delete_objects",
     GetObject |-> "get_object", HeadBucket |-> "head_bucket",
     HeadObject |-> "head_object", ListBuckets |-> "list_buckets",
     ListObjects |-> "list_objects", ListObjectsV2 |-> "list_objects_v2",
     PutObject |-> "put_object", UploadPart |-> "upload_part",
     GetBucketLocation |-> "get_bucket_location"]

\* C24: every request the gateway handled has incremented the call counter
\* exactly once, on every exit path, with the label of the requested verb
\* and with the status success if and only if the handler returned a
\* successful response.
C24_CountedExactlyOnce ==
    req.verb # "none"
        => /\ Len(counted) = 1
           /\ counted[1].action = VerbLabel[req.verb]
           /\ counted[1].status = "success" <=> resp.status = "ok"


\* The handler of the verb of a request that makes backend calls.
handle(in) ==
    CASE in.verb = "CreateBucket" -> create_bucket(in)
      [] in.verb = "HeadBucket" -> head_bucket(in)
      [] in.verb = "ListBuckets" -> list_buckets(in)
      [] in.verb = "PutObject" -> put_object(in)
      [] in.verb = "GetObject" -> get_object(in)
      [] in.verb = "HeadObject" -> head_object(in)
      [] in.verb = "CopyObject" -> copy_object(in)
      [] in.verb = "DeleteObject" -> delete_object(in)
      [] in.verb = "DeleteObjects" -> delete_objects(in)
      [] in.verb = "ListObjects" -> list_objects(in)
      [] in.verb = "ListObjectsV2" -> list_objects_v2(in)
      [] in.verb = "CompleteMultipartUpload" -> complete_multipart_upload(in)

\* Backend call number n of a request is made: told from how far the same
\* request gets when no backend call fails.  The first call of a verb is
\* the bucket list; the last call of a mutating verb is its transaction;
\* the second call of a reading verb is its query; CopyObject lists,
\* queries, lists and adds; DeleteObjects deletes key i as call i + 1.
MakesCall(in, n) ==
    LET out == handle([in EXCEPT !.rpc = 0])
        listed == Len(out.lookups) >= 1
        found == listed /\ out.lookups[1].address # NoBucket
    IN  CASE in.verb = "ListBuckets" -> n = 1 /\ wallet # NoWallet
          [] in.verb = "HeadBucket" -> n = 1 /\ listed
          [] in.verb \in {"CreateBucket", "PutObject", "DeleteObject",
                          "CompleteMultipartUpload"}
                -> \/ n = 1 /\ listed
                   \/ n = 2 /\ out.resp.status = "ok"
          [] in.verb \in {"GetObject", "HeadObject", "ListObjects",
                          "ListObjectsV2"}
                -> \/ n = 1 /\ listed
                   \/ n = 2 /\ found
          [] in.verb = "CopyObject"
                -> \/ n = 1 /\ listed
                   \/ n = 2 /\ found
                   \/ n = 3 /\ Len(out.lookups) = 2
                   \/ n = 4 /\ out.resp.status = "ok"
          [] in.verb = "DeleteObjects"
                -> \/ n = 1 /\ listed
                   \/ n - 1 \in 1..Len(in.keys) /\ found

\* The backend after the transactions a request committed before its call
\* number n: the deletes of the keys before the failing one for
\* DeleteObjects, nothing for the other verbs.
CommittedBefore(in, n) ==
    IF in.verb = "DeleteObjects" /\ n >= 2
    THEN LET address == handle([in EXCEPT !.rpc = 0]).lookups[1].address IN
         [buckets EXCEPT ![BucketIndex(address)].objects =
            [k \in DOMAIN @ \ {in.keys[j] : j \in 1..(n - 2)} |-> @[k]]]
    ELSE buckets

\* C25: whenever a backend call of a request fails (bucket list, query,
\* add, delete, bucket creation), the request fails with the error code
\* Custom carrying the backend's message, the call is not made again and
\* the request submits no further transaction: the backend is left as the
\* calls before the failing one left it.
C25_BackendFailureIsCustom ==
    [][(req.verb = "none" /\ "rpc" \in DOMAIN req' /\ req'.rpc > 0
        /\ MakesCall(req', req'.rpc))
            => /\ resp' = Custom("rpc error")
               /\ buckets' = CommittedBefore(req', req'.rpc)]_vars

\* The add of a CopyObject failed after its two bucket lists and its query
\* had succeeded.
C25_Witness ==
    /\ req.verb = "CopyObject" /\ req.rpc = 4
    /\ resp = Custom("rpc error")
    /\ Len(lookups) = 2 /\ lookups[2].address # NoBucket


\* The verbs that write to a bucket.
WritingVerbs ==
    {"PutObject", "DeleteObject", "DeleteObjects", "CopyObject",
     "CompleteMultipartUpload"}

---------------------------------------------------------------------------
(* Downloads: GetObject over one bucket, the spawned task and the client   *)
(* reading or dropping the response body                                   *)

InitPipe == GatewayStart(ADDR1, <<BucketAbc>>)

BodyNone == Body(<<>>, FALSE)
BodyLong == Body(<< <<"x", "y", "z">>, <<"y", "x">> >>, FALSE)

DlPutInputs ==
    {PutObjectReq(AbcOfAddr1, KeyK, b, NoMetadata, 0) :
        b \in {BodyNone, BodyX, BodyLong}}
    \cup {PutObjectReq(AbcOfAddr1, KeyK2, b, md, 0) :
            b \in {BodyYZ, BodyLong},
            md \in {NoMetadata, [last_modified |-> <<"soon">>]}}
DlGetInputs ==
    {GetObjectReq(AbcOfAddr1, k, cut, 0) : k \in Keys, cut \in BOOLEAN}
    \cup {GetObjectReq(AbcOfAddr1, KeyK, FALSE, r) : r \in 1..2}

Streams == pipe # NoPipe
Moves(p) ==
    /\ pipe' = p
    /\ UNCHANGED <<wallet, buckets, staging, uploaded, written, req, resp,
                   lookups, fnIn, fnOut, tasks, counted>>

\* The task writes as many bytes as the pipe takes, in one or more writes.
TaskWrite ==
    /\ Streams /\ pipe.task = "running"
    /\ poll_write(pipe) = "Ready"
    /\ \E n \in 1..writable(pipe) : Moves(duplex_write(pipe, n))

\* A write of the task returns an error: machine.get returns it, the task
\* logs it and ends.
TaskWriteFails ==
    /\ Streams /\ pipe.task = "running"
    /\ pipe.sent < Len(pipe.bytes)
    /\ poll_write(pipe) = "BrokenPipe"
    /\ Moves([pipe EXCEPT !.task = "broken"])

\* machine.get returns after its last write; the task ends and drops the
\* writer.
TaskReturns ==
    /\ Streams /\ pipe.task = "running"
    /\ pipe.sent = Len(pipe.bytes)
    /\ Moves([pipe EXCEPT !.task = IF pipe.complete THEN "done" ELSE "failed"])

\* The client reads some of the bytes the pipe holds.
ClientReads ==
    /\ Streams /\ pipe.reader = "open"
    /\ poll_read(pipe) = "Ready"
    /\ \E n \in 1..Len(pipe.buf) : Moves(duplex_read(pipe, n))

\* The client reads the end of the stream.
ClientReadsEnd ==
    /\ Streams /\ pipe.reader = "open"
    /\ poll_read(pipe) = "Eof"
    /\ Moves([pipe EXCEPT !.reader = "eof"])

\* The client goes away: the body, and with it the reader half, is dropped.
ClientDrops ==
    /\ Streams /\ pipe.reader = "open"
    /\ Moves([pipe EXCEPT !.reader = "dropped"])

\* The download is over on both sides.
Settled == pipe.task # "running" /\ pipe.reader # "open"

DlPutObject == StepPutObject(DlPutInputs)
DlGetObject == StepGetObject(DlGetInputs)
DlServeNext == (Streams => Settled) /\ ServeNext

NextPipe ==
    \/ DlPutObject
    \/ DlGetObject
    \/ TaskWrite
    \/ TaskWriteFails
    \/ TaskReturns
    \/ ClientReads
    \/ ClientReadsEnd
    \/ ClientDrops
    \/ DlServeNext

SpecPipe == InitPipe /\ [][NextPipe]_vars

IsPrefix(s, t) == Len(s) <= Len(t) /\ s = SubSeq(t, 1, Len(s))

\* The bytes the task has written into the pipe so far.
Written == SubSeq(pipe.bytes, 1, pipe.sent)

SpecPipeFair ==
    /\ SpecPipe
    /\ WF_vars(TaskWrite)
    /\ WF_vars(TaskWriteFails)
    /\ WF_vars(TaskReturns)
    /\ WF_vars(ClientReads)
    /\ WF_vars(ClientReadsEnd)

ClaimedLimit(max_keys) ==
    IF max_keys = NoMaxKeys THEN 1000
    ELSE IF max_keys[1] < 0 THEN 1000
    ELSE IF max_keys[1] <= 1000 THEN max_keys[1] ELSE 1000

\* C29: the key limit list_objects_v2 passes to the query is
\* min(max_keys, 1000) when max_keys is given and not negative, and 1000
\* when it is absent or negative; it never exceeds 1000; a listing returns
\* no more keys than that limit, and its response reports max_keys = 1000.
C29_LimitClamped ==
    /\ fnIn.fn = "list_limit" =>
        /\ fnOut = ClaimedLimit(fnIn.arg)
        /\ fnOut <= 1000
    /\ (req.verb = "ListObjectsV2" /\ resp.status = "ok") =>
        /\ resp.out.max_keys = 1000
        /\ resp.out.key_count <= ClaimedLimit(req.max_keys)
        /\ (resp.out.key_count < ClaimedLimit(req.max_keys))
                => ~resp.out.is_truncated

\* A max_keys above 1000 has been clamped to 1000, and a listing with
\* max_keys = 1 over more than one key has returned one key.
C29_Witness ==
    /\ fnIn.fn = "list_limit" /\ fnIn.arg = <<1001>> /\ fnOut = 1000
    /\ req.verb = "ListObjectsV2" /\ resp.status = "ok"
    /\ req.max_keys = <<1>> /\ resp.out.key_count = 1
    /\ resp.out.is_truncated /\ resp.out.max_keys = 1000


\* C30: a ListObjects (v1) that returns has the contents, common_prefixes,
\* name, prefix, delimiter, max_keys and is_truncated of ListObjectsV2 run
\* on the converted request, its marker is the v2 continuation_token and
\* its next_marker the v2 next_continuation_token; and a v1 request that
\* carries a marker m resumes the listing at m: it reports the marker m
\* and returns what ListObjectsV2 returns for the continuation token m.
C30_V1EqualsV2 ==
    (req.verb = "ListObjects" /\ resp.status = "ok") =>
        LET v2 == list_objects_v2(v2_input_from(req)).resp.out
            at_m == list_objects_v2([req EXCEPT !.verb = "ListObjectsV2"]).resp
        IN  /\ resp.out.contents = v2.contents
            /\ resp.out.common_prefixes = v2.common_prefixes
            /\ resp.out.name = v2.name
            /\ resp.out.prefix = v2.prefix
            /\ resp.out.delimiter = v2.delimiter
            /\ resp.out.max_keys = v2.max_keys
            /\ resp.out.is_truncated = v2.is_truncated
            /\ resp.out.marker = v2.continuation_token
            /\ resp.out.next_marker = v2.next_continuation_token
            /\ req.continuation_token # NoValue =>
                /\ resp.out.marker = req.continuation_token
                /\ at_m.status = "ok"
                /\ resp.out.contents = at_m.out.contents


---------------------------------------------------------------------------
(* Properties of part files, digests and concurrent requests *)

\* The part file an UploadPart request names.
PartPathOf(r) == get_upload_part_path(Uuid_parse_str(r.upload_id), r.part_number)

\* C31: a successful UploadPart(u, N, body) leaves the part file of (u, N)
\* holding exactly the body and returns the quoted md5-hex of the body as
\* ETag, whether or not u was issued by CreateMultipartUpload; no
\* UploadPart changes the backend; and when requests for the same (u, N)
\* run one after another the file holds the body of the latest successful
\* one: an UploadPart that fails leaves the file of an earlier successful
\* one as it was.
C31_UploadPartStoresBody ==
    [][(req.verb = "none" /\ req'.verb = "UploadPart") =>
        /\ buckets' = buckets
        /\ resp'.status = "ok" =>
            /\ PartPathOf(req') \in DOMAIN staging'
            /\ staging'[PartPathOf(req')] = Concat(req'.body.chunks)
            /\ resp'.out.e_tag = ExpectedETag(Concat(req'.body.chunks))
        /\ (resp'.status # "ok" /\ PartPathOf(req') \in DOMAIN uploaded) =>
            /\ PartPathOf(req') \in DOMAIN staging'
            /\ staging'[PartPathOf(req')] = uploaded[PartPathOf(req')]]_vars


---------------------------------------------------------------------------
(* HashReader: a reader that is polled into a buffer which may already     *)
(* hold bytes, as the buffer of tokio::io::copy does between its writes    *)

\* The longest input read through a HashReader.
MaxHashed == 3

\* HashReader::new(inner)
HashReader_new(inner) ==
    [status |-> "reading", inner |-> inner, hasher |-> Md5_new,
     buf |-> <<>>, out |-> <<>>, prefilled |-> FALSE, digest |-> <<>>]

\* poll_read that feeds the hasher the whole filled part of the buffer
poll_read_whole_buffer(h, n) ==
    LET bytes == h.buf \o SubSeq(h.inner, 1, n) IN
    [h EXCEPT !.inner = SubSeq(@, n + 1, Len(@)),
              !.buf = bytes,
              !.hasher = Md5_update(@, bytes),
              !.prefilled = @ \/ Len(h.buf) > 0,
              !.status = IF n = 0 THEN "eof" ELSE @]

\* HashReader::poll_read when the inner reader is ready with n bytes (none
\* at its end): pos is the length the buffer was filled to before, and the
\* hasher is fed bytes[pos..]
HashReader_poll_read(h, n) ==
    LET pos == Len(h.buf)
        bytes == h.buf \o SubSeq(h.inner, 1, n)
    IN  [h EXCEPT !.inner = SubSeq(@, n + 1, Len(@)),
                  !.buf = bytes,
                  !.hasher = Md5_update(@, SubSeq(bytes, pos + 1, Len(bytes))),
                  !.prefilled = @ \/ pos > 0,
                  !.status = IF n = 0 THEN "eof" ELSE @]

\* HashReader::finalize
HashReader_finalize(h) ==
    [h EXCEPT !.status = "finalized", !.digest = Md5_finalize(h.hasher)]

InitHash ==
    /\ wallet = ADDR1
    /\ GatewayIdle
    /\ fnIn \in {[fn |-> "none", arg |-> d] : d \in StrsUpTo({"x", "y"}, MaxHashed)}
    /\ fnOut = NoFnOut

Hashes(in, h) ==
    /\ fnIn' = in
    /\ fnOut' = h
    /\ UNCHANGED <<wallet, buckets, staging, uploaded, written, req, resp, lookups,
                   tasks, counted, pipe>>

\* The reader is made over the input.
HrNew ==
    /\ fnIn.fn = "none"
    /\ Hashes([fnIn EXCEPT !.fn = "HashReader"], HashReader_new(fnIn.arg))

\* The reader is polled: the inner reader gives some of the bytes it has
\* left, as far as the buffer has room, or its end.
HrPollRead ==
    /\ fnIn.fn = "HashReader" /\ fnOut.status = "reading"
    /\ Len(fnOut.buf) < CopyBufSyms
    /\ \E n \in 0..Min(Len(fnOut.inner), CopyBufSyms - Len(fnOut.buf)) :
        /\ (n = 0) <=> (fnOut.inner = <<>>)
        /\ Hashes(fnIn, HashReader_poll_read(fnOut, n))

\* The caller writes out some of the bytes of the buffer; the rest stays.
HrWrite ==
    /\ fnIn.fn = "HashReader" /\ fnOut.status \in {"reading", "eof"}
    /\ \E n \in 1..Len(fnOut.buf) :
        Hashes(fnIn, [fnOut EXCEPT !.out = @ \o SubSeq(fnOut.buf, 1, n),
                                   !.buf = SubSeq(@, n + 1, Len(@))])

\* After the end of the stream the digest is taken.
HrFinalize ==
    /\ fnIn.fn = "HashReader" /\ fnOut.status = "eof" /\ fnOut.buf = <<>>
    /\ Hashes(fnIn, HashReader_finalize(fnOut))

NextHash == HrNew \/ HrPollRead \/ HrWrite \/ HrFinalize

SpecHash == InitHash /\ [][NextHash]_vars

\* C32: the bytes that came through a HashReader, followed by those the
\* inner reader still has, are the input, unchanged and in order; the
\* hasher has been fed exactly the bytes that came through, each once; and
\* finalize after the end of the stream gives the MD5 digest of the input.
C32_HashReaderForwardsAndDigests ==
    fnIn.fn = "HashReader" =>
        /\ fnOut.out \o fnOut.buf \o fnOut.inner = fnIn.arg
        /\ fnOut.hasher = fnOut.out \o fnOut.buf
        /\ fnOut.status = "finalized" =>
            /\ fnOut.out = fnIn.arg
            /\ fnOut.digest = Md5(fnIn.arg)

\* An input of several bytes was read to its end, one read at least going
\* into a buffer that already held bytes.
C32_Witness ==
    /\ fnIn.fn = "HashReader" /\ fnOut.status = "finalized"
    /\ fnOut.prefilled /\ Len(fnIn.arg) >= 2
    /\ fnOut.digest = Md5(fnIn.arg)


---------------------------------------------------------------------------
(* Concurrent CreateBucket requests: the handler awaits the bucket list    *)
(* and then the creation, and another connection may run between the two   *)

\* create_bucket up to the await of the bucket list
begin_create_bucket(in) ==
    IF is_read_only THEN Returned(IdleTask, Err("NotImplemented"))
    ELSE IF ~check_bucket_name(in.bucket)
    THEN Returned(IdleTask, Err("InvalidBucketName"))
    ELSE LET bucket == BucketNameWithOwner_from(<<wallet>> \o <<".">> \o in.bucket) IN
    IF bucket.status # "ok" THEN Returned(IdleTask, bucket)
    ELSE [IdleTask EXCEPT !.pc = "list"]

\* The requests whose handler has not returned.
InFlight == {c \in Conns : tasks[c].pc # "idle"}

\* A connection takes a CreateBucket request.
CreateAccept(c) ==
    /\ tasks[c].pc = "idle"
    /\ Len(buckets) + Cardinality(InFlight) < MaxBuckets
    /\ \E in \in {CreateBucketReq(n, r) : n \in {NameAbc, NameAbd, <<"A">>},
                                          r \in 0..2} :
        Ran(c, tasks[c], [begin_create_bucket(in) EXCEPT !.in = in], tasks)
    /\ UNCHANGED <<buckets, staging>>

\* create_bucket: the answer of get_bucket_address_by_alias has arrived.
CreateList(c) ==
    LET t == tasks[c]
        bucket == BucketNameWithOwner_from(<<wallet>> \o <<".">> \o t.in.bucket)
        r == get_bucket_address_by_alias(bucket, RpcFails(t.in, 1)) IN
    /\ t.pc = "list"
    /\ Ran(c, t, IF r.status # "ok" THEN Returned(t, r)
                 ELSE IF r.address # NoBucket
                 THEN Returned(t, Err("BucketAlreadyExists"))
                 ELSE [t EXCEPT !.pc = "new"], tasks)
    /\ UNCHANGED <<buckets, staging>>

\* create_bucket: Bucket::new has committed, or failed.
CreateNew(c) ==
    LET t == tasks[c]
        bucket == BucketNameWithOwner_from(<<wallet>> \o <<".">> \o t.in.bucket)
        b == new_bucket(bucket.owner, [creation_date |-> Now, alias |-> bucket.name]) IN
    /\ t.pc = "new"
    /\ IF RpcFails(t.in, 2)
       THEN /\ Ran(c, t, Returned(t, Custom("rpc error")), tasks)
            /\ UNCHANGED buckets
       ELSE /\ buckets' = Append(buckets, b)
            /\ Ran(c, t, Returned(t, Ok([location |-> <<b.address>>])), tasks)
    /\ UNCHANGED staging

InitCreate ==
    /\ wallet = ADDR1
    /\ buckets \in {<<>>, <<BucketAbc>>}
    /\ staging = EmptyMap
    /\ uploaded = EmptyMap
    /\ written = EmptyMap
    /\ req = [verb |-> "none"]
    /\ resp = [status |-> "none"]
    /\ lookups = <<>>
    /\ fnIn = NoFn
    /\ fnOut = NoFnOut
    /\ tasks = [c \in Conns |-> IdleTask]
    /\ counted = <<>>
    /\ pipe = NoPipe

NextCreate ==
    \E c \in Conns :
        \/ CreateAccept(c)
        \/ CreateList(c)
        \/ CreateNew(c)

SpecCreate == InitCreate /\ [][NextCreate]_vars

\* C33: alias uniqueness.  After any interleaving of concurrent
\* CreateBucket requests no owner has two backend buckets whose alias
\* metadata is the same name.
C33_AliasUnique ==
    \A i \in 1..Len(buckets), j \in 1..Len(buckets) :
        (/\ i # j
         /\ buckets[i].owner = buckets[j].owner
         /\ "alias" \in DOMAIN buckets[i].metadata
         /\ "alias" \in DOMAIN buckets[j].metadata)
            => buckets[i].metadata["alias"] # buckets[j].metadata["alias"]


---------------------------------------------------------------------------
(* Properties of a multipart completion that fails *)

\* The part files of the upload a request names.
PartFilesOfRequest(in, stg) == PartFilesOf(stg, Uuid_parse_str(in.upload_id))

\* C34: if CompleteMultipartUpload(u) fails for any reason, every part file
\* of u that existed before the call still exists with the same content
\* afterwards.
C34_FailedCompleteKeepsParts ==
    [][(/\ req.verb = "none"
        /\ req'.verb = "CompleteMultipartUpload"
        /\ resp'.status # "ok")
            => \A f \in PartFilesOfRequest(req', staging) :
                f \in DOMAIN staging' /\ staging'[f] = staging[f]]_vars


\* C35: the object stored by a successful CompleteMultipartUpload consists,
\* for each listed part number, of the complete body of one successful
\* UploadPart call for that upload and part number, and never contains a
\* partial body left behind by a failed UploadPart.
C35_CompletedObjectIsWholeBodies ==
    (req.verb = "CompleteMultipartUpload" /\ resp.status = "ok")
        => /\ Target \in DOMAIN written
           /\ Len(written[Target].bodies) = Len(req.multipart_upload.parts)
           /\ object_at(buckets, Target).data = Concat(written[Target].bodies)


---------------------------------------------------------------------------
(* Concurrent completions of one upload whose parts are staged *)

\* The part files of upload u1 left by earlier UploadPart requests.
StagedParts(n) ==
    [f \in {get_upload_part_path("u1", i) : i \in 1..n} |->
        IF f = get_upload_part_path("u1", 1) THEN <<"x">> ELSE <<"y", "z">>]

\* The key a connection completes the upload under.
KeyOf(c) == IF c = "c1" THEN KeyK ELSE KeyK2

CompletionInputs(c) ==
    {CompleteMultipartUploadReq(AbcOfAddr1, KeyOf(c), "u1", CompletedUpload(p), 0) :
        p \in {<<1>>, <<1, 2>>, <<2>>}}

InitComplete ==
    /\ wallet = ADDR1
    /\ buckets = <<BucketAbc>>
    /\ \E n \in 1..2 : staging = StagedParts(n) /\ uploaded = StagedParts(n)
    /\ written = EmptyMap
    /\ req = [verb |-> "none"]
    /\ resp = [status |-> "none"]
    /\ lookups = <<>>
    /\ fnIn = NoFn
    /\ fnOut = NoFnOut
    /\ tasks = [c \in Conns |-> IdleTask]
    /\ counted = <<>>
    /\ pipe = NoPipe

NextComplete ==
    \E c \in Conns :
        \/ Accept(c, CompletionInputs(c))
        \/ CompleteOpenPart(c)
        \/ CompleteCopyPart(c)
        \/ CompleteRemovePart(c)
        \/ CompleteAdd(c)

SpecComplete == InitComplete /\ [][NextComplete]_vars

\* The objects the bucket abc holds.
Completed == DOMAIN ObjectsOf(BucketAddrs[1])

\* C36: when CompleteMultipartUpload requests for the same upload id, each
\* listing at least one part, run concurrently, at most one of them
\* returns success and at most one object-add transaction is submitted for
\* that upload: a completion succeeds, and the backend changes, only while
\* no completion of the upload has added its object.
C36_OneCompletionWins ==
    [][/\ (req'.verb = "CompleteMultipartUpload" /\ resp'.status = "ok")
            => (Completed = {} /\ buckets' # buckets)
       /\ buckets' # buckets
            => /\ Completed = {}
               /\ req'.verb = "CompleteMultipartUpload" /\ resp'.status = "ok"
               /\ Cardinality(DOMAIN ObjectsOf(BucketAddrs[1])') = 1]_vars

\* One completion has added its object and the other, which had opened the
\* same part file, failed at the removal of the file.
C36_Witness ==
    /\ Completed = {KeyK}
    /\ req.verb = "CompleteMultipartUpload" /\ req.conn = "c2"
    /\ req.pc = "remove"
    /\ resp = Err("InternalError")


---------------------------------------------------------------------------
(* Properties of PutObject under user metadata and body errors *)

\* C37: the ETag returned by a successful PutObject for key k is the ETag
\* that GetObject returns for k as long as no other write to k intervenes,
\* for every user metadata map supplied with the put.
C37_PutETagIsGetETag ==
    /\ (req.verb = "PutObject" /\ resp.status = "ok")
            => resp.out.e_tag = ExpectedETag(written[Target].bodies[1])
    /\ (req.verb = "GetObject" /\ resp.status = "ok"
        /\ Target \in DOMAIN written
        /\ written[Target].verb = "PutObject")
            => resp.out.e_tag = ExpectedETag(written[Target].bodies[1])


\* C38: if the PutObject request body stream yields an error before its
\* end, PutObject fails and submits no backend transaction: an object
\* holding only a prefix of the body the client was sending is never
\* stored.
C38_TornPutFails ==
    [][(/\ req.verb = "none" /\ req'.verb = "PutObject"
        /\ req'.body.present /\ req'.body.err)
            => /\ resp'.status # "ok"
               /\ buckets' = buckets]_vars


\* C39: no sequence of requests leaves an object in a state that makes a
\* later GetObject, HeadObject or ListObjectsV2 on its bucket panic: every
\* such request ends with a response or an S3 error, whatever
\* last_modified metadata the stored objects carry.
C39_ReadsNeverPanic ==
    req.verb \in {"GetObject", "HeadObject", "ListObjectsV2"}
        => resp.status \in {"ok", "err"}


---------------------------------------------------------------------------
(* Pagination: a client lists a bucket page by page, each request carrying *)
(* the next_continuation_token of the response before it.  fnIn holds the  *)
(* first request of the listing and fnOut what the client has so far.      *)

\* What the client has after a page: the keys of all pages in order, the
\* token to go on with, and the number of requests made.
AfterPage(keys, pages, r) ==
    IF r.status # "ok"
    THEN [status |-> "failed", keys |-> keys, token |-> NoValue,
          pages |-> pages + 1]
    ELSE [status |-> IF r.out.is_truncated THEN "truncated" ELSE "complete",
          keys |-> keys \o [i \in 1..Len(r.out.contents) |-> r.out.contents[i].key],
          token |-> r.out.next_continuation_token,
          pages |-> pages + 1]

\* One ListObjectsV2 request of the listing and its response.
Paged(in, out) ==
    /\ req.verb = "none"
    /\ req' = in
    /\ resp' = out.resp
    /\ lookups' = out.lookups
    /\ counted' = drops(in, out.resp)
    /\ pipe' = streaming(in, out)
    /\ UNCHANGED <<wallet, buckets, staging, uploaded, written, tasks>>

\* The first request: no continuation token.
PageFirst ==
    /\ fnIn.fn = "none"
    /\ \E prefix \in {NoValue, KeyK, KeyK2}, max_keys \in ListMaxKeys :
        LET in == ListObjectsReq("ListObjectsV2", AbcOfAddr1, prefix, max_keys,
                                 NoValue, 0)
            out == list_objects_v2(in) IN
        /\ Paged(in, out)
        /\ fnIn' = [fn |-> "pagination", arg |-> in]
        /\ fnOut' = AfterPage(<<>>, 0, out.resp)

\* A further request, with the token of the response before it.
PageNext ==
    /\ fnIn.fn = "pagination" /\ fnOut.status = "truncated"
    /\ LET in == [fnIn.arg EXCEPT !.continuation_token = fnOut.token]
           out == list_objects_v2(in) IN
        /\ Paged(in, out)
        /\ fnOut' = AfterPage(fnOut.keys, fnOut.pages, out.resp)
    /\ UNCHANGED fnIn

\* The bucket changes only before the listing starts.
PagePutObject == fnIn.fn = "none" /\ StepPutObject(LsPutInputs)
PageDeleteObject == fnIn.fn = "none" /\ StepDeleteObject(LsDeleteInputs)

NextPage ==
    \/ PagePutObject
    \/ PageDeleteObject
    \/ PageFirst
    \/ PageNext
    \/ ServeNext

SpecPage == InitList /\ [][NextPage]_vars

\* The stored keys the listing is to return.
Matching == {k \in DOMAIN ObjectsOf(BucketAddrs[1]) :
                starts_with(k, IF fnIn.arg.prefix = NoValue THEN <<>>
                               ELSE fnIn.arg.prefix)}

\* C40: pagination is complete.  On a bucket that is not modified
\* meanwhile, ListObjectsV2 without a continuation token followed by
\* requests carrying the previous next_continuation_token, until a response
\* has is_truncated = false, terminates and returns every key matching the
\* prefix exactly once; is_truncated is true exactly when a
\* next_continuation_token is returned.
C40_PaginationComplete ==
    fnIn.fn = "pagination" =>
        /\ fnOut.status # "failed"
        /\ fnOut.pages <= Cardinality(Matching) + 1
        /\ \A i \in 1..Len(fnOut.keys), j \in 1..Len(fnOut.keys) :
                fnOut.keys[i] = fnOut.keys[j] => i = j
        /\ fnOut.status = "complete"
                => {fnOut.keys[i] : i \in 1..Len(fnOut.keys)} = Matching
        /\ (req.verb = "ListObjectsV2" /\ resp.status = "ok")
                => (resp.out.is_truncated
                        <=> resp.out.next_continuation_token # NoValue)

=============================================================================
